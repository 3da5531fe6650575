-------------------------- MODULE LidarImuSync_proofs --------------------------
(***************************************************************************)
(* Order and gaps, for every capacity of the buffers, every gap limit and  *)
(* every sequence of stamps: predictions move forward and precede the      *)
(* correction they belong to, and the gap check of syncPackages guards     *)
(* each step of the propagation.                                           *)
(***************************************************************************)
EXTENDS LidarImuSync, NumberLemmas, SequenceTheorems

-----------------------------------------------------------------------------
(* Buffers *)

Sorted(s) == \A i, j \in DOMAIN s : i <= j => s[i] <= s[j]

(***************************************************************************)
(* The loops stop where Passed says.                                       *)
(***************************************************************************)
LEMMA PassedFacts ==
    ASSUME NEW s \in Seq(Int), NEW end \in Int
    PROVE  /\ Passed(s, end) \in 0 .. Len(s)
           /\ \A i \in 1 .. Passed(s, end) : s[i] <= end
           /\ Passed(s, end) < Len(s) => s[Passed(s, end) + 1] > end
<1> DEFINE T == {n \in 1 .. Len(s) : s[n] > end}
           P(n) == /\ \A i \in 1 .. n : s[i] <= end
                   /\ n < Len(s) => s[n + 1] > end
<1>0. Len(s) \in Nat /\ \A i \in 1 .. Len(s) : s[i] \in Int
  OBVIOUS
<1>1. \E n \in 0 .. Len(s) : P(n)
  <2>1. CASE T = {}
    <3>1. \A i \in 1 .. Len(s) : s[i] <= end
      BY <1>0, <2>1
    <3> QED
      BY <1>0, <3>1
  <2>2. CASE T # {}
    <3>1. T \in SUBSET Nat
      BY <1>0
    <3>2. PICK m \in T : \A u \in T : m <= u
      BY <2>2, <3>1, LeastNatural
    <3>3. m \in 1 .. Len(s) /\ s[m] > end
      OBVIOUS
    <3>4. \A i \in 1 .. m - 1 : s[i] <= end
      BY <1>0, <3>2, <3>3
    <3>5. m - 1 \in 0 .. Len(s) /\ (m - 1) + 1 = m
      BY <1>0, <3>3
    <3>6. P(m - 1)
      BY <3>3, <3>4, <3>5
    <3> QED
      BY <3>5, <3>6
  <2> QED
    BY <2>1, <2>2
<1>2. Passed(s, end) = CHOOSE n \in 0 .. Len(s) : P(n)
  BY DEF Passed
<1> HIDE DEF P
<1>3. Passed(s, end) \in 0 .. Len(s) /\ P(Passed(s, end))
  BY <1>1, <1>2
<1> QED
  BY <1>3 DEF P

(***************************************************************************)
(* What is taken from a sorted buffer and what is left.                    *)
(***************************************************************************)
LEMMA SplitFacts ==
    ASSUME NEW s \in Seq(Stamps), Sorted(s), NEW end \in Int
    PROVE  /\ UpTo(s, end) \in Seq(Stamps) /\ Beyond(s, end) \in Seq(Stamps)
           /\ Sorted(UpTo(s, end)) /\ Sorted(Beyond(s, end))
           /\ \A i \in DOMAIN UpTo(s, end) :
                UpTo(s, end)[i] <= end /\ \E j \in DOMAIN s : UpTo(s, end)[i] = s[j]
           /\ \A i \in DOMAIN Beyond(s, end) :
                Beyond(s, end)[i] > end /\ \E j \in DOMAIN s : Beyond(s, end)[i] = s[j]
<1> DEFINE n == Passed(s, end)
<1>0. /\ s \in Seq(Int) /\ Len(s) \in Nat /\ DOMAIN s = 1 .. Len(s)
      /\ \A i \in 1 .. Len(s) : s[i] \in Stamps /\ s[i] \in Int
  BY SMTT(20), SyncAssumption DEF Stamps
<1>1. /\ n \in 0 .. Len(s) /\ \A i \in 1 .. n : s[i] <= end
      /\ n < Len(s) => s[n + 1] > end
  BY <1>0, PassedFacts
<1> HIDE DEF n
<1>2. /\ UpTo(s, end) = SubSeq(s, 1, n) /\ Beyond(s, end) = SubSeq(s, n + 1, Len(s))
  BY DEF UpTo, Beyond, n
<1>3. /\ UpTo(s, end) \in Seq(Stamps) /\ Len(UpTo(s, end)) = n
      /\ \A i \in 1 .. n : UpTo(s, end)[i] = s[i]
  BY <1>0, <1>1, <1>2
<1>4. /\ Beyond(s, end) \in Seq(Stamps) /\ Len(Beyond(s, end)) = Len(s) - n
      /\ \A i \in 1 .. Len(s) - n : Beyond(s, end)[i] = s[i + n]
  <2>1. n + 1 \in 1 .. Len(s) + 1 /\ Len(s) \in (n + 1) - 1 .. Len(s)
    BY <1>0, <1>1
  <2>2. /\ SubSeq(s, n + 1, Len(s)) \in Seq(Stamps)
        /\ Len(SubSeq(s, n + 1, Len(s))) = Len(s) - (n + 1) + 1
        /\ \A i \in 1 .. Len(s) - (n + 1) + 1 :
             SubSeq(s, n + 1, Len(s))[i] = s[(n + 1) + i - 1]
    BY <2>1, SubSeqProperties
  <2>3. /\ Len(s) - (n + 1) + 1 = Len(s) - n
        /\ \A i \in 1 .. Len(s) - n : (n + 1) + i - 1 = i + n
    BY <1>0, <1>1
  <2> QED
    BY <1>2, <2>2, <2>3
<1>5. DOMAIN UpTo(s, end) = 1 .. n /\ DOMAIN Beyond(s, end) = 1 .. Len(s) - n
  BY <1>3, <1>4
<1>6. \A i, j \in 1 .. Len(s) : i <= j => s[i] <= s[j]
  BY <1>0 DEF Sorted
<1>7. Sorted(UpTo(s, end))
  BY <1>0, <1>1, <1>3, <1>5, <1>6 DEF Sorted
<1>8. Sorted(Beyond(s, end))
  <2> SUFFICES ASSUME NEW i \in 1 .. Len(s) - n, NEW j \in 1 .. Len(s) - n, i <= j
               PROVE  s[i + n] <= s[j + n]
    BY <1>4, <1>5 DEF Sorted
  <2>1. i + n \in 1 .. Len(s) /\ j + n \in 1 .. Len(s) /\ i + n <= j + n
    BY <1>0, <1>1
  <2> QED
    BY <1>6, <2>1
<1>9. ASSUME NEW i \in 1 .. Len(s) - n
      PROVE  s[i + n] > end /\ i + n \in 1 .. Len(s)
  <2>1. n + 1 \in 1 .. Len(s) /\ i + n \in 1 .. Len(s) /\ n + 1 <= i + n /\ n < Len(s)
    BY <1>0, <1>1
  <2>2. s[n + 1] <= s[i + n] /\ s[n + 1] > end
    BY <1>1, <1>6, <2>1
  <2> QED
    BY <1>0, <2>1, <2>2
<1>10. \A i \in DOMAIN UpTo(s, end) :
         UpTo(s, end)[i] <= end /\ \E j \in DOMAIN s : UpTo(s, end)[i] = s[j]
  <2> SUFFICES ASSUME NEW i \in 1 .. n
               PROVE  s[i] <= end /\ i \in DOMAIN s
    BY <1>3, <1>5
  <2> QED
    BY <1>0, <1>1
<1>11. \A i \in DOMAIN Beyond(s, end) :
         Beyond(s, end)[i] > end /\ \E j \in DOMAIN s : Beyond(s, end)[i] = s[j]
  <2> SUFFICES ASSUME NEW i \in 1 .. Len(s) - n
               PROVE  s[i + n] > end /\ i + n \in DOMAIN s
    BY <1>4, <1>5
  <2> QED
    BY <1>0, <1>9
<1> QED
  BY <1>3, <1>4, <1>7, <1>8, <1>10, <1>11

(***************************************************************************)
(* A circular buffer stays sorted when what comes is not older.            *)
(***************************************************************************)
LEMMA PushFacts ==
    ASSUME NEW s \in Seq(Stamps), Sorted(s), NEW capacity \in Nat \ {0}, NEW x \in Stamps,
           \A i \in DOMAIN s : s[i] <= x
    PROVE  /\ Push(s, capacity, x) \in Seq(Stamps) /\ Sorted(Push(s, capacity, x))
           /\ \A i \in DOMAIN Push(s, capacity, x) :
                \/ Push(s, capacity, x)[i] = x
                \/ \E j \in DOMAIN s : Push(s, capacity, x)[i] = s[j]
<1> DEFINE t == IF Len(s) = capacity THEN Tail(s) ELSE s
<1>0. x \in Int /\ \A i \in 1 .. Len(s) : s[i] \in Int
  BY SyncAssumption DEF Stamps
<1>1. /\ t \in Seq(Stamps)
      /\ \E k \in {0, 1} : /\ Len(t) = Len(s) - k
                           /\ \A i \in 1 .. Len(t) : t[i] = s[i + k] /\ i + k \in 1 .. Len(s)
  <2>1. CASE Len(s) = capacity
    <3>1. s # <<>> /\ Len(s) \in Nat
      BY <2>1
    <3>2. t = Tail(s)
      BY <2>1
    <3>3. Tail(s) \in Seq(Stamps) /\ Len(Tail(s)) = Len(s) - 1
      BY <3>1
    <3>4. \A i \in 1 .. Len(s) - 1 : Tail(s)[i] = s[i + 1] /\ i + 1 \in 1 .. Len(s)
      BY <3>1
    <3> QED
      BY <3>2, <3>3, <3>4
  <2>2. CASE Len(s) # capacity
    BY <2>2
  <2> QED
    BY <2>1, <2>2
<1> HIDE DEF t
<1>2. Push(s, capacity, x) = Append(t, x)
  BY DEF Push, t
<1>3. PICK k \in {0, 1} : /\ Len(t) = Len(s) - k
                          /\ \A i \in 1 .. Len(t) : t[i] = s[i + k] /\ i + k \in 1 .. Len(s)
  BY <1>1
<1>4. /\ Append(t, x) \in Seq(Stamps) /\ Len(Append(t, x)) = Len(t) + 1 /\ Len(t) \in Nat
      /\ \A i \in 1 .. Len(t) : Append(t, x)[i] = t[i]
      /\ Append(t, x)[Len(t) + 1] = x
      /\ DOMAIN Append(t, x) = 1 .. Len(t) + 1
  BY <1>1
<1>5. \A i, j \in 1 .. Len(s) : i <= j => s[i] <= s[j]
  BY DEF Sorted
<1>6. ASSUME NEW i \in 1 .. Len(t) + 1, NEW j \in 1 .. Len(t) + 1, i <= j
      PROVE  Append(t, x)[i] <= Append(t, x)[j]
  <2>1. CASE j \in 1 .. Len(t)
    <3>1. i \in 1 .. Len(t) /\ i + k <= j + k
      BY <1>4, <1>6, <2>1
    <3> QED
      BY <1>3, <1>4, <1>5, <2>1, <3>1
  <2>2. CASE j = Len(t) + 1 /\ i \in 1 .. Len(t)
    <3>1. i + k \in DOMAIN s /\ Append(t, x)[i] = s[i + k]
      BY <1>3, <1>4, <2>2
    <3> QED
      BY <1>4, <2>2, <3>1
  <2>3. CASE j = Len(t) + 1 /\ i = Len(t) + 1
    BY <1>0, <1>4, <2>3
  <2> QED
    BY <1>4, <2>1, <2>2, <2>3
<1>7. ASSUME NEW i \in 1 .. Len(t) + 1
      PROVE  Append(t, x)[i] = x \/ \E j \in DOMAIN s : Append(t, x)[i] = s[j]
  <2>1. CASE i \in 1 .. Len(t)
    <3>1. i + k \in DOMAIN s /\ Append(t, x)[i] = s[i + k]
      BY <1>3, <1>4, <2>1
    <3> QED
      BY <3>1
  <2>2. CASE i = Len(t) + 1
    BY <1>4, <2>2
  <2> QED
    BY <1>4, <2>1, <2>2
<1> QED
  BY <1>2, <1>4, <1>6, <1>7 DEF Sorted
-----------------------------------------------------------------------------
(* The prediction *)

(***************************************************************************)
(* pred is a record with the fields of Disarmed; the instant its state     *)
(* stands for, a sum over a frame, plays no part in the order.             *)
(***************************************************************************)
PredType(p) ==
    /\ p = [armed |-> p.armed, at |-> p.at, head |-> p.head, from |-> p.from,
            sent |-> p.sent]
    /\ p.armed \in BOOLEAN
    /\ p.head \in Times /\ p.from \in Times /\ p.sent \in Times

(***************************************************************************)
(* integrateIMU keeps the sample, and publishes it only when it is later   *)
(* than the sample before, or than the time it integrates from.            *)
(***************************************************************************)
LEMMA IntegrateFacts ==
    ASSUME NEW p, PredType(p), NEW s \in Stamps
    PROVE  LET q == Integrate(p, s)
           IN  /\ PredType(q) /\ q.head = s
               /\ p.from = NoTime => q.from = NoTime
               /\ \/ q.sent = p.sent
                  \/ q.sent = s /\ (p.from = NoTime => s > p.head)
<1> DEFINE d == s - (IF p.from # NoTime THEN p.from ELSE p.head)
           q == Integrate(p, s)
<1>0. /\ s \in Int /\ s \in Times /\ p.head \in Int /\ p.from \in Int /\ NoTime \in Int
      /\ MaxGap \in Nat
  BY SyncAssumption DEF PredType, Times, Stamps, NoTime
<1>1. CASE p.head = NoTime \/ d <= 0 \/ d > MaxGap
  <2>1. q = [p EXCEPT !.head = s]
    BY <1>1 DEF Integrate
  <2>2. q = [armed |-> p.armed, at |-> p.at, head |-> s, from |-> p.from,
             sent |-> p.sent]
    BY <2>1 DEF PredType
  <2> QED
    BY <1>0, <2>2 DEF PredType
<1>2. CASE ~ (p.head = NoTime \/ d <= 0 \/ d > MaxGap)
  <2>1. q = [p EXCEPT !.at = @ + d, !.head = s, !.sent = s,
                      !.from = IF @ # NoTime THEN s ELSE @]
    BY <1>2 DEF Integrate
  <2>2. q = [armed |-> p.armed, at |-> p.at + d, head |-> s,
             from |-> IF p.from # NoTime THEN s ELSE p.from, sent |-> s]
    BY <2>1 DEF PredType
  <2>3. p.from = NoTime => s > p.head
    BY <1>0, <1>2
  <2> HIDE DEF d
  <2>4. PredType(q)
    BY <1>0, <2>2 DEF PredType
  <2> HIDE DEF q
  <2> QED
    BY <2>2, <2>3, <2>4 DEF q
<1> QED
  BY <1>1, <1>2

-----------------------------------------------------------------------------
(* The invariant *)

AtMost(s, b) == \A i \in DOMAIN s : s[i] <= b
AtLeast(s, b) == \A i \in DOMAIN s : s[i] >= b
Above(s, b) == \A i \in DOMAIN s : s[i] > b

\* A released frame is between its synchronisation and its processing.
InFrame == phase \in {"predict", "process"}

Types ==
    /\ onCallback \in BOOLEAN /\ hasLastImu \in BOOLEAN
    /\ started \in BOOLEAN /\ initialized \in BOOLEAN /\ restored \in BOOLEAN
    /\ resets \in Nat
    /\ lastImu \in Times /\ consumed \in Times
    /\ imuBuffer \in Seq(Stamps) /\ predBuffer \in Seq(Stamps)
    /\ pending \in Scans \cup {NoScan}
    /\ cursor \in [imu : Times, end : Times]
    /\ phase \in {"idle", "sync", "predict", "process"}
    /\ PredType(pred)
    /\ InFrame => /\ frame.imu \in Seq(Stamps) /\ frame.imu # <<>>
                  /\ frame.end \in Stamps

(***************************************************************************)
(* The buffers are in the order of the stamps and end with the last one.   *)
(***************************************************************************)
BufferInv ==
    /\ Sorted(imuBuffer) /\ Sorted(predBuffer)
    /\ AtMost(imuBuffer, lastImu) /\ AtMost(predBuffer, lastImu)
    /\ ~hasLastImu => imuBuffer = <<>> /\ predBuffer = <<>> /\ pred = Disarmed
    /\ InFrame => hasLastImu

(***************************************************************************)
(* Live, each sample is predicted from as it comes.                        *)
(***************************************************************************)
LiveInv ==
    ~onCallback => /\ phase # "predict" /\ pred.from = NoTime
                   /\ pred.sent <= pred.head /\ pred.head <= lastImu

(***************************************************************************)
(* In replay nothing that waits is older than what was published, and      *)
(* what was published is not beyond the frame under processing.            *)
(***************************************************************************)
ReplayInv ==
    onCallback =>
        /\ pred.sent <= lastImu
        /\ AtLeast(predBuffer, pred.sent)
        /\ ~InFrame => AtLeast(imuBuffer, pred.sent)
        /\ InFrame => pred.sent <= frame.end /\ Above(imuBuffer, frame.end)
        /\ phase = "process" => Above(predBuffer, frame.end)

(***************************************************************************)
(* last_consumed_imu_time_ and the cursor of ImuProcessor name the same    *)
(* sample between two frames unless the cursor was rolled back, and a      *)
(* released frame passed the gap check from that sample on.                *)
(***************************************************************************)
GapInv ==
    /\ initialized => started
    /\ ~InFrame /\ initialized /\ ~restored =>
         cursor.imu = consumed /\ consumed # NoTime
    /\ InFrame =>
         /\ consumed = Last(frame.imu)
         /\ \A i \in 1 .. Len(frame.imu) - 1 : frame.imu[i + 1] - frame.imu[i] <= MaxGap
         /\ frame.end - Last(frame.imu) <= MaxGap
         /\ initialized /\ ~restored => frame.imu[1] - cursor.imu <= MaxGap

IInv == Types /\ BufferInv /\ LiveInv /\ ReplayInv /\ GapInv

LEMMA InitIInv == Init => IInv
<1> SUFFICES ASSUME Init PROVE IInv
  OBVIOUS
<1>0. NoTime \in Times /\ NoTime \in Int /\ <<>> \in Seq(Stamps) /\ DOMAIN <<>> = {}
  BY DEF NoTime, Times
<1>1. ~InFrame
  BY DEF Init, InFrame
<1>2. PredType(pred)
  BY <1>0 DEF Init, PredType, Disarmed
<1>3. Types
  BY <1>0, <1>1, <1>2 DEF Init, Types
<1>4. BufferInv
  BY <1>0, <1>1 DEF Init, BufferInv, Sorted, AtMost
<1>5. LiveInv
  BY <1>0 DEF Init, LiveInv, Disarmed
<1>6. ReplayInv
  BY <1>0, <1>1 DEF Init, ReplayInv, Disarmed, AtLeast, InFrame
<1>7. GapInv
  BY <1>1 DEF Init, GapInv
<1> QED
  BY <1>3, <1>4, <1>5, <1>6, <1>7 DEF IInv

-----------------------------------------------------------------------------
(* The callbacks *)

LEMMA Numbers ==
    /\ NoTime \in Times /\ NoTime \in Int
    /\ Stamps \subseteq Int /\ Stamps \subseteq Times /\ Times \subseteq Int
    /\ \A x \in Times : NoTime <= x
    /\ <<>> \in Seq(Stamps) /\ DOMAIN <<>> = {}
BY SyncAssumption DEF NoTime, Times, Stamps

LEMMA DisarmedFacts ==
    /\ PredType(Disarmed)
    /\ Disarmed.head = NoTime /\ Disarmed.from = NoTime /\ Disarmed.sent = NoTime
BY Numbers DEF PredType, Disarmed

LEMMA EmptyFacts ==
    Sorted(<<>>) /\ \A b : AtMost(<<>>, b) /\ AtLeast(<<>>, b) /\ Above(<<>>, b)
BY Numbers DEF Sorted, AtMost, AtLeast, Above

LEMMA SingleFacts ==
    ASSUME NEW x \in Stamps
    PROVE  /\ <<x>> \in Seq(Stamps) /\ Sorted(<<x>>) /\ AtMost(<<x>>, x)
           /\ AtLeast(<<x>>, NoTime)
<1>1. x \in Int /\ NoTime <= x
  BY Numbers
<1>2. DOMAIN <<x>> = {1} /\ <<x>>[1] = x /\ <<x>> \in Seq(Stamps)
  OBVIOUS
<1> QED
  BY <1>1, <1>2 DEF Sorted, AtMost, AtLeast

(***************************************************************************)
(* A push of a stamp that is not before the last one.                      *)
(***************************************************************************)
LEMMA PushKeeps ==
    ASSUME NEW s \in Seq(Stamps), Sorted(s), NEW capacity \in Nat \ {0}, NEW x \in Stamps,
           NEW last \in Times, AtMost(s, last), last <= x
    PROVE  /\ Push(s, capacity, x) \in Seq(Stamps) /\ Sorted(Push(s, capacity, x))
           /\ AtMost(Push(s, capacity, x), x)
           /\ \A b \in Times : AtLeast(s, b) /\ b <= last => AtLeast(Push(s, capacity, x), b)
<1>a. \A i \in DOMAIN s : s[i] \in Stamps
  OBVIOUS
<1>0. /\ x \in Int /\ last \in Int /\ Times \subseteq Int
      /\ \A i \in DOMAIN s : s[i] \in Int
  BY <1>a, Numbers
<1>1. \A i \in DOMAIN s : s[i] <= x
  BY <1>0 DEF AtMost
<1> DEFINE t == Push(s, capacity, x)
<1>2. /\ t \in Seq(Stamps) /\ Sorted(t)
      /\ \A i \in DOMAIN t : t[i] = x \/ \E j \in DOMAIN s : t[i] = s[j]
  BY <1>1, PushFacts
<1> HIDE DEF t
<1>3. AtMost(t, x)
  BY <1>0, <1>1, <1>2 DEF AtMost
<1>4. ASSUME NEW b \in Times, AtLeast(s, b), b <= last
      PROVE  AtLeast(t, b)
  BY <1>0, <1>2, <1>4 DEF AtLeast
<1> QED
  BY <1>2, <1>3, <1>4 DEF t

(***************************************************************************)
(* When a stamp has moved backwards.                                       *)
(***************************************************************************)
LEMMA ResetTypes ==
    ASSUME IInv, ResetCore, onCallback' = onCallback,
           phase' \in {"idle", "sync"}, lastImu' \in Times, hasLastImu' \in BOOLEAN,
           imuBuffer' \in Seq(Stamps), predBuffer' \in Seq(Stamps), pred' = Disarmed
    PROVE  Types' /\ GapInv' /\ ~InFrame'
<1>1. ~InFrame'
  BY DEF InFrame
<1>2. PredType(pred')
  BY DisarmedFacts
<1>3. resets' \in Nat
  BY DEF IInv, Types, ResetCore
<1>4. Types'
  BY <1>1, <1>2, <1>3, Numbers DEF IInv, Types, ResetCore
<1>5. GapInv'
  BY <1>1 DEF GapInv, ResetCore
<1> QED
  BY <1>1, <1>4, <1>5

LEMMA ScanKeeps ==
    ASSUME IInv, NEW b \in Stamps, ReceiveScan(b)
    PROVE  IInv'
<1>0. /\ onCallback' = onCallback /\ lastImu' = lastImu /\ frame' = frame
      /\ phase = "idle" /\ phase' \in {"idle", "sync"} /\ ~InFrame /\ ~InFrame'
  BY DEF ReceiveScan, AfterCallback, InFrame
<1>1. CASE lastLidar # NoTime /\ b < lastLidar
  <2>1. /\ ResetCore /\ imuBuffer' = <<>> /\ predBuffer' = <<>>
        /\ pred' = Disarmed /\ hasLastImu' = FALSE
    BY <1>1 DEF ReceiveScan
  <2>2. lastImu \in Times
    BY DEF IInv, Types
  <2>3. Types' /\ GapInv'
    BY <1>0, <2>1, <2>2, Numbers, ResetTypes
  <2>4. BufferInv'
    BY <1>0, <2>1, EmptyFacts DEF BufferInv
  <2>5. LiveInv'
    BY <1>0, <2>1, <2>2, Numbers, DisarmedFacts DEF LiveInv
  <2>6. ReplayInv'
    BY <1>0, <2>1, <2>2, Numbers, DisarmedFacts, EmptyFacts DEF ReplayInv
  <2> QED
    BY <2>3, <2>4, <2>5, <2>6 DEF IInv
<1>2. CASE ~ (lastLidar # NoTime /\ b < lastLidar)
  <2>1. UNCHANGED <<core, imuBuffer, predBuffer, pred, hasLastImu>>
    BY <1>2 DEF ReceiveScan
  <2>2. Types' /\ GapInv'
    BY <1>0, <2>1 DEF IInv, Types, GapInv, core
  <2>3. BufferInv' /\ LiveInv'
    BY <1>0, <2>1 DEF IInv, BufferInv, LiveInv
  <2>4. ReplayInv'
    BY <1>0, <2>1 DEF IInv, ReplayInv
  <2> QED
    BY <2>2, <2>3, <2>4 DEF IInv
<1> QED
  BY <1>1, <1>2

LEMMA ImuKeeps ==
    ASSUME IInv, NEW s \in Stamps, ReceiveImu(s)
    PROVE  IInv'
<1>0. /\ onCallback' = onCallback /\ lastImu' = s /\ hasLastImu' = TRUE /\ frame' = frame
      /\ phase = "idle" /\ phase' \in {"idle", "sync"} /\ ~InFrame /\ ~InFrame'
      /\ s \in Times /\ s \in Int /\ NoTime <= s
  BY Numbers DEF ReceiveImu, AfterCallback, InFrame
<1>1. CASE hasLastImu /\ s < lastImu
  <2>1. /\ ResetCore /\ imuBuffer' = <<s>>
        /\ predBuffer' = IF onCallback THEN <<s>> ELSE <<>>
        /\ pred' = Disarmed
    BY <1>1 DEF ReceiveImu
  <2>2. Types' /\ GapInv'
    BY <1>0, <2>1, Numbers, SingleFacts, ResetTypes
  <2>3. BufferInv'
    BY <1>0, <2>1, EmptyFacts, SingleFacts DEF BufferInv
  <2>4. LiveInv'
    BY <1>0, <2>1, Numbers, DisarmedFacts DEF LiveInv
  <2>5. ReplayInv'
    BY <1>0, <2>1, Numbers, DisarmedFacts, SingleFacts DEF ReplayInv
  <2> QED
    BY <2>2, <2>3, <2>4, <2>5 DEF IInv
<1>2. CASE ~ (hasLastImu /\ s < lastImu)
  <2>1. /\ imuBuffer' = Push(imuBuffer, ImuCapacity, s)
        /\ predBuffer' = IF onCallback THEN Push(predBuffer, ImuCapacity, s)
                                       ELSE predBuffer
        /\ pred' = IF ~onCallback /\ pred.armed THEN Integrate(pred, s) ELSE pred
        /\ UNCHANGED core
    BY <1>2 DEF ReceiveImu
  <2>2. /\ onCallback \in BOOLEAN /\ hasLastImu \in BOOLEAN
        /\ imuBuffer \in Seq(Stamps) /\ predBuffer \in Seq(Stamps)
        /\ Sorted(imuBuffer) /\ Sorted(predBuffer) /\ PredType(pred)
        /\ lastImu \in Times /\ lastImu \in Int
        /\ pred.sent \in Times /\ pred.sent \in Int /\ pred.head \in Int
        /\ ImuCapacity \in Nat \ {0}
    BY Numbers, SyncAssumption DEF IInv, Types, BufferInv, PredType
  <2>3. \* The last stamp counted, or NoTime when there is none.
        \E last \in Times : /\ last <= s /\ AtMost(imuBuffer, last)
                            /\ AtMost(predBuffer, last)
                            /\ (onCallback => pred.sent <= last)
                            /\ (~onCallback => pred.head <= last)
    <3>1. CASE hasLastImu
      <4>1. lastImu <= s
        BY <1>0, <1>2, <2>2, <3>1
      <4>2. /\ AtMost(imuBuffer, lastImu) /\ AtMost(predBuffer, lastImu)
            /\ (onCallback => pred.sent <= lastImu)
            /\ (~onCallback => pred.head <= lastImu)
        BY DEF IInv, BufferInv, ReplayInv, LiveInv
      <4> QED
        BY <2>2, <4>1, <4>2
    <3>2. CASE ~hasLastImu
      <4>1. imuBuffer = <<>> /\ predBuffer = <<>> /\ pred = Disarmed
        BY <3>2 DEF IInv, BufferInv
      <4>2. NoTime \in Times /\ NoTime <= s /\ NoTime <= NoTime
        BY <1>0, Numbers
      <4> QED
        BY <4>1, <4>2, DisarmedFacts, EmptyFacts
    <3> QED
      BY <2>2, <3>1, <3>2
  <2>4. PICK last \in Times : /\ last <= s /\ AtMost(imuBuffer, last)
                              /\ AtMost(predBuffer, last)
                              /\ (onCallback => pred.sent <= last)
                              /\ (~onCallback => pred.head <= last)
    BY <2>3
  <2>5. /\ imuBuffer' \in Seq(Stamps) /\ Sorted(imuBuffer') /\ AtMost(imuBuffer', s)
        /\ onCallback /\ AtLeast(imuBuffer, pred.sent) => AtLeast(imuBuffer', pred.sent)
    BY <2>1, <2>2, <2>4, PushKeeps
  <2>6. /\ predBuffer' \in Seq(Stamps) /\ Sorted(predBuffer') /\ AtMost(predBuffer', s)
        /\ onCallback /\ AtLeast(predBuffer, pred.sent) => AtLeast(predBuffer', pred.sent)
    <3>1. CASE onCallback
      BY <2>1, <2>2, <2>4, <3>1, PushKeeps
    <3>2. CASE ~onCallback
      <4>1. predBuffer' = predBuffer
        BY <2>1, <3>2
      <4>2. \A i \in DOMAIN predBuffer : predBuffer[i] \in Int
        <5>1. \A i \in DOMAIN predBuffer : predBuffer[i] \in Stamps
          BY <2>2
        <5> QED
          BY <5>1, Numbers
      <4>3. last \in Int
        BY Numbers
      <4>4. AtMost(predBuffer, s)
        BY <1>0, <2>4, <4>2, <4>3 DEF AtMost
      <4> QED
        BY <2>2, <3>2, <4>1, <4>4
    <3> QED
      BY <2>2, <3>1, <3>2
  <2>7. /\ PredType(pred') /\ (onCallback => pred' = pred)
        /\ ~onCallback => /\ pred'.from = NoTime
                          /\ pred'.sent <= pred'.head /\ pred'.head <= s
    <3>1. CASE ~onCallback /\ pred.armed
      <4>1. pred' = Integrate(pred, s)
        BY <2>1, <3>1
      <4>2. pred.from = NoTime /\ pred.sent <= pred.head /\ pred.head <= last
        BY <2>4, <3>1 DEF IInv, LiveInv
      <4>3. /\ PredType(pred') /\ pred'.head = s /\ pred'.from = NoTime
            /\ pred'.sent = pred.sent \/ pred'.sent = s
        BY <2>2, <4>1, <4>2, IntegrateFacts
      <4>4. pred.sent <= s /\ s <= s
        BY <1>0, <2>2, <2>4, <4>2, Numbers
      <4> QED
        BY <3>1, <4>3, <4>4
    <3>2. CASE ~ (~onCallback /\ pred.armed)
      <4>1. pred' = pred
        BY <2>1, <3>2
      <4>2. ~onCallback => /\ pred.from = NoTime /\ pred.sent <= pred.head
                           /\ pred.head <= last
        BY <2>4 DEF IInv, LiveInv
      <4>3. ~onCallback => pred.head <= s
        BY <1>0, <2>2, <2>4, <4>2, Numbers
      <4> QED
        BY <2>2, <4>1, <4>2, <4>3
    <3> QED
      BY <3>1, <3>2
  <2>8. Types'
    BY <1>0, <2>1, <2>5, <2>6, <2>7 DEF IInv, Types, core
  <2>9. BufferInv'
    BY <1>0, <2>5, <2>6 DEF BufferInv
  <2>10. LiveInv'
    BY <1>0, <2>7 DEF LiveInv
  <2>11. ReplayInv'
    <3> SUFFICES ASSUME onCallback
                 PROVE  ReplayInv'
      BY <1>0 DEF ReplayInv
    <3>1. pred' = pred /\ pred.sent <= s
      BY <1>0, <2>2, <2>4, <2>7, Numbers
    <3>2. AtLeast(predBuffer, pred.sent) /\ AtLeast(imuBuffer, pred.sent)
      BY <1>0 DEF IInv, ReplayInv
    <3> QED
      BY <1>0, <2>5, <2>6, <3>1, <3>2 DEF ReplayInv
  <2>12. GapInv'
    BY <1>0, <2>1 DEF IInv, GapInv, core
  <2> QED
    BY <2>8, <2>9, <2>10, <2>11, <2>12 DEF IInv
<1> QED
  BY <1>1, <1>2

-----------------------------------------------------------------------------
(* The synchronisation *)

Untouched == UNCHANGED <<onCallback, imuBuffer, predBuffer, lastImu, hasLastImu, pred>>

(***************************************************************************)
(* A step between two frames that leaves samples and prediction alone.     *)
(***************************************************************************)
LEMMA UntouchedKeeps ==
    ASSUME IInv, Untouched, ~InFrame, phase' \in {"idle", "sync"}
    PROVE  BufferInv' /\ LiveInv' /\ ReplayInv' /\ ~InFrame'
<1>1. ~InFrame'
  BY DEF InFrame
<1>2. BufferInv' /\ LiveInv'
  BY <1>1 DEF IInv, BufferInv, LiveInv, Untouched
<1>3. ReplayInv'
  BY <1>1 DEF IInv, ReplayInv, Untouched, InFrame
<1> QED
  BY <1>1, <1>2, <1>3

LEMMA WaitsKeep ==
    ASSUME IInv, TimerFires \/ WaitForInput \/ TakeScan \/ WaitForImu \/ SkipUncovered
    PROVE  IInv'
<1>1. /\ Untouched /\ ~InFrame /\ phase' \in {"idle", "sync"}
      /\ pending' \in Scans \cup {NoScan}
      /\ UNCHANGED <<consumed, started, initialized, cursor, restored, resets>>
  BY DEF TimerFires, WaitForInput, TakeScan, WaitForImu, SkipUncovered, ScanInHand,
         Untouched, InFrame, IInv, Types, buffers, stamps, core
<1>2. BufferInv' /\ LiveInv' /\ ReplayInv' /\ ~InFrame'
  BY <1>1, UntouchedKeeps
<1>3. Types'
  BY <1>1, <1>2 DEF IInv, Types, Untouched
<1>4. GapInv'
  BY <1>1, <1>2 DEF IInv, GapInv
<1> QED
  BY <1>2, <1>3, <1>4 DEF IInv

(***************************************************************************)
(* Taking the samples of a scan.                                           *)
(***************************************************************************)
LEMMA ConsumeFacts ==
    ASSUME IInv, ScanInHand, ImuArrived,
           Consume(UpTo(imuBuffer, pending.end))
    PROVE  LET imu == UpTo(imuBuffer, pending.end)
           IN  /\ pending.end \in Stamps /\ imu \in Seq(Stamps) /\ imu # <<>>
               /\ Last(imu) \in Stamps /\ consumed' = Last(imu)
               /\ AtMost(imu, pending.end)
               /\ \A b \in Times : AtLeast(imuBuffer, b) => b <= pending.end
               /\ imuBuffer' \in Seq(Stamps) /\ Sorted(imuBuffer')
               /\ AtMost(imuBuffer', lastImu) /\ Above(imuBuffer', pending.end)
               /\ \A b \in Times : AtLeast(imuBuffer, b) => AtLeast(imuBuffer', b)
               /\ hasLastImu
<1> DEFINE imu == UpTo(imuBuffer, pending.end)
           rest == Beyond(imuBuffer, pending.end)
<1>1. pending \in Scans
  BY DEF IInv, Types, ScanInHand
<1>2. pending.end \in Stamps /\ pending.end \in Int
  BY <1>1, Numbers DEF Scans
<1>3. imuBuffer \in Seq(Stamps) /\ Sorted(imuBuffer) /\ AtMost(imuBuffer, lastImu)
  BY DEF IInv, Types, BufferInv
<1>4. /\ imu \in Seq(Stamps) /\ rest \in Seq(Stamps) /\ Sorted(rest)
      /\ \A i \in DOMAIN imu :
           imu[i] <= pending.end /\ \E j \in DOMAIN imuBuffer : imu[i] = imuBuffer[j]
      /\ \A i \in DOMAIN rest :
           rest[i] > pending.end /\ \E j \in DOMAIN imuBuffer : rest[i] = imuBuffer[j]
  BY <1>2, <1>3, SplitFacts
<1>5. imu # <<>> /\ imuBuffer' = rest /\ consumed' = Last(imu)
  BY DEF Consume
<1> HIDE DEF imu, rest
<1>6. Len(imu) \in DOMAIN imu /\ 1 \in DOMAIN imu /\ Last(imu) = imu[Len(imu)]
  BY <1>4, <1>5 DEF Last
<1>7. Last(imu) \in Stamps
  BY <1>4, <1>6
<1>8. AtMost(imu, pending.end) /\ AtMost(rest, lastImu) /\ Above(rest, pending.end)
  BY <1>3, <1>4 DEF AtMost, Above
<1>9. ASSUME NEW b \in Times, AtLeast(imuBuffer, b)
      PROVE  b <= pending.end /\ AtLeast(rest, b)
  <2>1. imu[1] >= b /\ imu[1] <= pending.end /\ imu[1] \in Stamps
    BY <1>4, <1>6, <1>9 DEF AtLeast
  <2>2. b <= pending.end
    <3>1. imu[1] \in Int /\ b \in Int
      BY <2>1, Numbers
    <3> QED
      BY <1>2, <2>1, <3>1
  <2>3. AtLeast(rest, b)
    BY <1>4, <1>9 DEF AtLeast
  <2> QED
    BY <2>2, <2>3
<1>10. imuBuffer # <<>>
  BY DEF ScanInHand
<1>11. hasLastImu
  BY <1>10 DEF IInv, Types, BufferInv
<1> QED
  BY <1>2, <1>4, <1>5, <1>7, <1>8, <1>9, <1>11 DEF imu

LEMMA SkipGapKeeps ==
    ASSUME IInv, SkipGap
    PROVE  IInv'
<1> DEFINE imu == UpTo(imuBuffer, pending.end)
<1>1. /\ ScanInHand /\ ImuArrived /\ Consume(imu)
      /\ cursor' = [imu |-> Last(imu), end |-> pending.end] /\ restored' = FALSE
      /\ phase' = "idle" /\ pending' = NoScan /\ ~InFrame /\ ~InFrame'
      /\ UNCHANGED <<onCallback, predBuffer, lastImu, hasLastImu, started, initialized,
                     pred, frame, resets>>
  BY DEF SkipGap, Consume, ScanInHand, stamps, InFrame
<1>2. /\ pending.end \in Times /\ Last(imu) \in Stamps /\ Last(imu) \in Times
      /\ consumed' = Last(imu)
      /\ imuBuffer' \in Seq(Stamps) /\ Sorted(imuBuffer') /\ AtMost(imuBuffer', lastImu)
      /\ \A b \in Times : AtLeast(imuBuffer, b) => AtLeast(imuBuffer', b)
      /\ hasLastImu
  BY <1>1, ConsumeFacts, Numbers
<1> HIDE DEF imu
<1>3. Types'
  BY <1>1, <1>2 DEF IInv, Types
<1>4. BufferInv' /\ LiveInv'
  BY <1>1, <1>2 DEF IInv, BufferInv, LiveInv
<1>5. ReplayInv'
  <2>1. pred.sent \in Times
    BY DEF IInv, Types, PredType
  <2> QED
    BY <1>1, <1>2, <2>1 DEF IInv, ReplayInv
<1>6. consumed' # NoTime
  BY <1>2 DEF Stamps, NoTime
<1>7. GapInv'
  BY <1>1, <1>2, <1>6 DEF IInv, GapInv
<1> QED
  BY <1>3, <1>4, <1>5, <1>7 DEF IInv

(***************************************************************************)
(* What the gap check of syncPackages says of the frame it releases.       *)
(***************************************************************************)
LEMMA LargestGapFacts ==
    ASSUME NEW imu \in Seq(Stamps), imu # <<>>, NEW end \in Stamps, consumed \in Times,
           LargestGap(imu, end) <= MaxGap
    PROVE  /\ \A i \in 1 .. Len(imu) - 1 : imu[i + 1] - imu[i] <= MaxGap
           /\ end - Last(imu) <= MaxGap
           /\ consumed # NoTime => imu[1] - consumed <= MaxGap
<1> DEFINE before == IF consumed = NoTime THEN <<>> ELSE <<consumed>>
           w == before \o imu \o <<end>>
           G == Gaps(w) \cup {0}
<1>1. /\ before \in Seq(Stamps) /\ Len(before) \in {0, 1}
      /\ consumed # NoTime => Len(before) = 1 /\ before[1] = consumed
  BY DEF Times
<1> DEFINE k == Len(before)
<1> HIDE DEF before
<1>2. /\ Len(imu) \in Nat \ {0} /\ Last(imu) = imu[Len(imu)]
      /\ \A i \in 1 .. Len(imu) : imu[i] \in Stamps
  BY DEF Last
<1>3. /\ before \o imu \in Seq(Stamps) /\ Len(before \o imu) = k + Len(imu)
      /\ \A i \in 1 .. Len(imu) : (before \o imu)[k + i] = imu[i]
      /\ k = 1 => (before \o imu)[1] = before[1]
  BY <1>1, <1>2
<1>4. /\ w \in Seq(Stamps) /\ Len(w) = k + Len(imu) + 1
      /\ \A i \in 1 .. Len(before \o imu) : w[i] = (before \o imu)[i]
      /\ w[k + Len(imu) + 1] = end
  BY <1>1, <1>2, <1>3
<1>5. /\ \A i \in 1 .. Len(imu) : w[k + i] = imu[i]
      /\ k = 1 => w[1] = before[1]
  BY <1>1, <1>2, <1>3, <1>4
<1> HIDE DEF w
<1>6. \A i \in 1 .. Len(w) - 1 :
        w[i + 1] - w[i] \in Int /\ w[i + 1] - w[i] <= MaxTime
  <2> SUFFICES ASSUME NEW i \in 1 .. Len(w) - 1
               PROVE  w[i + 1] - w[i] \in Int /\ w[i + 1] - w[i] <= MaxTime
    OBVIOUS
  <2>1. w[i] \in Stamps /\ w[i + 1] \in Stamps
    BY <1>4
  <2> QED
    BY SMTT(20), <2>1, SyncAssumption DEF Stamps
<1>7. G \in SUBSET Int /\ G # {} /\ \A x \in G : x <= MaxTime
  BY <1>6, SyncAssumption DEF Gaps
<1>8. \A i \in 1 .. Len(w) - 1 : w[i + 1] - w[i] \in G
  BY DEF Gaps
<1>9. LargestGap(imu, end) = Max(G)
  BY DEF LargestGap, w, before
<1> HIDE DEF G
<1>10. Max(G) \in G /\ \A y \in G : y <= Max(G)
  <2>1. MaxTime \in Int
    BY SyncAssumption
  <2> QED
    BY <1>7, <2>1, MaxIsGreatest
<1>11. ASSUME NEW i \in 1 .. Len(w) - 1
       PROVE  w[i + 1] - w[i] <= MaxGap
  <2>1. w[i + 1] - w[i] \in Int /\ w[i + 1] - w[i] <= Max(G) /\ Max(G) \in Int
    BY <1>6, <1>7, <1>8, <1>10
  <2> QED
    BY <1>9, <2>1, SyncAssumption
<1>12. ASSUME NEW i \in 1 .. Len(imu) - 1
       PROVE  imu[i + 1] - imu[i] <= MaxGap
  <2>1. /\ k + i \in 1 .. Len(w) - 1 /\ (k + i) + 1 = k + (i + 1)
        /\ i \in 1 .. Len(imu) /\ i + 1 \in 1 .. Len(imu)
    BY <1>1, <1>2, <1>4
  <2>2. w[k + i] = imu[i] /\ w[k + (i + 1)] = imu[i + 1]
    BY <1>5, <2>1
  <2>3. w[(k + i) + 1] - w[k + i] <= MaxGap
    BY <1>11, <2>1
  <2> QED
    BY <2>1, <2>2, <2>3
<1>13. end - Last(imu) <= MaxGap
  <2>1. k + Len(imu) \in 1 .. Len(w) - 1 /\ Len(imu) \in 1 .. Len(imu)
    BY <1>1, <1>2, <1>4
  <2>2. w[k + Len(imu)] = Last(imu) /\ w[(k + Len(imu)) + 1] = end
    BY <1>2, <1>4, <1>5, <2>1
  <2>3. w[(k + Len(imu)) + 1] - w[k + Len(imu)] <= MaxGap
    BY <1>11, <2>1
  <2> QED
    BY <2>2, <2>3
<1>14. ASSUME consumed # NoTime
       PROVE  imu[1] - consumed <= MaxGap
  <2>1. k = 1 /\ w[1] = consumed /\ w[1 + 1] = imu[1] /\ 1 \in 1 .. Len(w) - 1
    <3>1. k = 1 /\ w[1] = consumed /\ 1 \in 1 .. Len(imu)
      BY <1>1, <1>2, <1>5, <1>14
    <3>2. w[k + 1] = imu[1]
      BY <1>5, <3>1
    <3> QED
      BY <1>2, <1>4, <3>1, <3>2
  <2>2. w[1 + 1] - w[1] <= MaxGap
    BY <1>11, <2>1
  <2> QED
    BY <2>1, <2>2
<1> QED
  BY <1>12, <1>13, <1>14

LEMMA ReleaseKeeps ==
    ASSUME IInv, Release
    PROVE  IInv'
<1> DEFINE imu == UpTo(imuBuffer, pending.end)
<1>1. /\ ScanInHand /\ ImuArrived /\ Consume(imu)
      /\ LargestGap(imu, pending.end) <= MaxGap
      /\ frame' = [imu |-> imu, end |-> pending.end]
      /\ pending' = NoScan /\ ~InFrame
      /\ phase' = IF onCallback THEN "predict" ELSE "process"
      /\ UNCHANGED <<onCallback, predBuffer, lastImu, hasLastImu, started, initialized,
                     cursor, restored, resets, pred>>
  BY DEF Release, Consume, ScanInHand, stamps, InFrame
<1>2. /\ pending.end \in Stamps /\ imu \in Seq(Stamps) /\ imu # <<>>
      /\ Last(imu) \in Stamps /\ consumed' = Last(imu)
      /\ \A b \in Times : AtLeast(imuBuffer, b) => b <= pending.end
      /\ imuBuffer' \in Seq(Stamps) /\ Sorted(imuBuffer')
      /\ AtMost(imuBuffer', lastImu) /\ Above(imuBuffer', pending.end)
      /\ hasLastImu
  BY <1>1, ConsumeFacts
<1>3. consumed \in Times /\ onCallback \in BOOLEAN /\ PredType(pred)
  BY DEF IInv, Types
<1>4. /\ \A i \in 1 .. Len(imu) - 1 : imu[i + 1] - imu[i] <= MaxGap
      /\ pending.end - Last(imu) <= MaxGap
      /\ consumed # NoTime => imu[1] - consumed <= MaxGap
  <2> HIDE DEF imu
  <2> QED
    BY <1>1, <1>2, <1>3, LargestGapFacts
<1> HIDE DEF imu
<1>5. /\ frame'.imu = imu /\ frame'.end = pending.end /\ InFrame'
      /\ phase' \in {"predict", "process"} /\ (onCallback => phase' = "predict")
  BY <1>1, <1>3 DEF InFrame
<1>6. Types'
  BY <1>1, <1>2, <1>5, Numbers DEF IInv, Types
<1>7. BufferInv' /\ LiveInv'
  BY <1>1, <1>2, <1>5 DEF IInv, BufferInv, LiveInv
<1>8. ReplayInv'
  <2> SUFFICES ASSUME onCallback PROVE ReplayInv'
    BY <1>1 DEF ReplayInv
  <2>1. pred.sent \in Times
    BY <1>3 DEF PredType
  <2>2. pred.sent <= pending.end
    BY <1>1, <1>2, <2>1 DEF IInv, ReplayInv
  <2>3. phase' # "process"
    BY <1>5
  <2> QED
    BY <1>1, <1>2, <1>5, <2>2, <2>3 DEF IInv, ReplayInv
<1>9. GapInv'
  <2>1. initialized' => started'
    BY <1>1 DEF IInv, GapInv
  <2>2. initialized' /\ ~restored' => frame'.imu[1] - cursor'.imu <= MaxGap
    BY <1>1, <1>4, <1>5 DEF IInv, GapInv
  <2> QED
    BY <1>2, <1>4, <1>5, <2>1, <2>2 DEF GapInv
<1> QED
  BY <1>6, <1>7, <1>8, <1>9 DEF IInv

(***************************************************************************)
(* What is left of a buffer.                                               *)
(***************************************************************************)
LEMMA BeyondKeeps ==
    ASSUME NEW s \in Seq(Stamps), Sorted(s), NEW end \in Int
    PROVE  /\ Beyond(s, end) \in Seq(Stamps) /\ Sorted(Beyond(s, end))
           /\ \A b : /\ AtMost(s, b) => AtMost(Beyond(s, end), b)
                     /\ AtLeast(s, b) => AtLeast(Beyond(s, end), b)
                     /\ Above(s, b) => Above(Beyond(s, end), b)
<1> DEFINE t == Beyond(s, end)
<1>1. /\ t \in Seq(Stamps) /\ Sorted(t)
      /\ \A i \in DOMAIN t : \E j \in DOMAIN s : t[i] = s[j]
  BY SplitFacts
<1> HIDE DEF t
<1>2. ASSUME NEW b
      PROVE  /\ AtMost(s, b) => AtMost(t, b)
             /\ AtLeast(s, b) => AtLeast(t, b)
             /\ Above(s, b) => Above(t, b)
  BY <1>1 DEF AtMost, AtLeast, Above
<1> QED
  BY <1>1, <1>2 DEF t

LEMMA TailFacts ==
    ASSUME NEW s \in Seq(Stamps), s # <<>>, Sorted(s)
    PROVE  /\ Head(s) \in Stamps /\ Tail(s) \in Seq(Stamps) /\ Sorted(Tail(s))
           /\ AtLeast(s, Head(s)) /\ AtLeast(Tail(s), Head(s))
           /\ \A b : /\ AtMost(s, b) => AtMost(Tail(s), b) /\ Head(s) <= b
                     /\ AtLeast(s, b) => Head(s) >= b
<1>1. /\ 1 \in DOMAIN s /\ Head(s) = s[1] /\ Len(s) \in Nat \ {0}
      /\ DOMAIN s = 1 .. Len(s) /\ \A i \in 1 .. Len(s) : s[i] \in Stamps
  OBVIOUS
<1>2. /\ Tail(s) \in Seq(Stamps) /\ DOMAIN Tail(s) = 1 .. Len(s) - 1
      /\ \A i \in 1 .. Len(s) - 1 : Tail(s)[i] = s[i + 1] /\ i + 1 \in 1 .. Len(s)
  OBVIOUS
<1>3. \A i, j \in 1 .. Len(s) : i <= j => s[i] <= s[j]
  BY <1>1 DEF Sorted
<1>4. Sorted(Tail(s))
  <2> SUFFICES ASSUME NEW i \in 1 .. Len(s) - 1, NEW j \in 1 .. Len(s) - 1, i <= j
               PROVE  s[i + 1] <= s[j + 1]
    BY <1>2 DEF Sorted
  <2>1. i + 1 \in 1 .. Len(s) /\ j + 1 \in 1 .. Len(s) /\ i + 1 <= j + 1
    BY <1>2
  <2> QED
    BY <1>3, <2>1
<1>5. \A i \in 1 .. Len(s) : s[i] >= Head(s)
  <2> SUFFICES ASSUME NEW i \in 1 .. Len(s) PROVE s[i] >= s[1]
    BY <1>1
  <2>1. s[1] <= s[i] /\ s[1] \in Stamps /\ s[i] \in Stamps
    BY <1>1, <1>3
  <2>2. s[1] \in Int /\ s[i] \in Int
    BY <2>1, Numbers
  <2> QED
    BY <2>1, <2>2
<1>6. AtLeast(s, Head(s)) /\ AtLeast(Tail(s), Head(s))
  BY <1>1, <1>2, <1>5 DEF AtLeast
<1>7. ASSUME NEW b PROVE AtMost(s, b) => AtMost(Tail(s), b) /\ Head(s) <= b
  BY <1>1, <1>2 DEF AtMost
<1>8. ASSUME NEW b PROVE AtLeast(s, b) => Head(s) >= b
  BY <1>1 DEF AtLeast
<1> QED
  BY <1>1, <1>2, <1>4, <1>6, <1>7, <1>8

(***************************************************************************)
(* A sample of the frame's interval; what is published is not older than   *)
(* what was published before.                                              *)
(***************************************************************************)
LEMMA PredictKeeps ==
    ASSUME IInv, Predict
    PROVE  /\ IInv'
           /\ pred'.sent # pred.sent => pred'.sent > pred.sent
<1>1. /\ phase = "predict" /\ predBuffer # <<>> /\ Head(predBuffer) <= frame.end
      /\ predBuffer' = Tail(predBuffer)
      /\ pred' = IF ~pred.armed \/ Head(predBuffer) <= pred.from
                   THEN pred ELSE Integrate(pred, Head(predBuffer))
      /\ UNCHANGED <<onCallback, imuBuffer, lastImu, hasLastImu, pending, consumed,
                     started, initialized, cursor, restored, resets, frame, phase>>
      /\ InFrame /\ InFrame'
  BY DEF Predict, PredictionDue, stamps, core, InFrame
<1>2. predBuffer \in Seq(Stamps) /\ Sorted(predBuffer) /\ PredType(pred) /\ hasLastImu
  BY <1>1 DEF IInv, Types, BufferInv
<1> DEFINE h == Head(predBuffer)
<1>3. /\ h \in Stamps /\ predBuffer' \in Seq(Stamps) /\ Sorted(predBuffer')
      /\ AtLeast(predBuffer', h)
      /\ \A b : /\ AtMost(predBuffer, b) => AtMost(predBuffer', b) /\ h <= b
                /\ AtLeast(predBuffer, b) => h >= b
  BY <1>1, <1>2, TailFacts
<1> HIDE DEF h
<1>4. /\ PredType(pred') /\ (pred.from = NoTime => pred'.from = NoTime)
      /\ pred'.sent = pred.sent \/ pred'.sent = h
  <2>1. CASE ~pred.armed \/ Head(predBuffer) <= pred.from
    BY <1>1, <1>2, <2>1
  <2>2. CASE ~ (~pred.armed \/ Head(predBuffer) <= pred.from)
    <3>1. pred' = Integrate(pred, h)
      BY <1>1, <2>2 DEF h
    <3> QED
      BY <1>2, <1>3, <3>1, IntegrateFacts
  <2> QED
    BY <2>1, <2>2
<1>5. Types'
  BY <1>1, <1>3, <1>4 DEF IInv, Types
<1>6. BufferInv'
  BY <1>1, <1>2, <1>3 DEF IInv, BufferInv
<1>7. onCallback /\ LiveInv'
  BY <1>1, <1>2 DEF IInv, Types, LiveInv
<1>8. /\ pred.sent \in Times /\ h <= lastImu /\ h <= frame.end /\ h >= pred.sent
      /\ pred.sent <= lastImu /\ pred.sent <= frame.end
      /\ AtLeast(predBuffer', pred.sent) /\ Above(imuBuffer, frame.end)
  <2>1. /\ pred.sent <= lastImu /\ AtLeast(predBuffer, pred.sent)
        /\ pred.sent <= frame.end /\ Above(imuBuffer, frame.end)
    BY <1>1, <1>7 DEF IInv, ReplayInv
  <2>2. h <= lastImu /\ h >= pred.sent /\ h <= frame.end /\ pred.sent \in Times
    BY <1>1, <1>2, <1>3, <2>1 DEF IInv, BufferInv, PredType, h
  <2>3. \A i \in DOMAIN predBuffer' : predBuffer'[i] \in Stamps
    BY <1>3
  <2>4. AtLeast(predBuffer', pred.sent)
    <3> SUFFICES ASSUME NEW i \in DOMAIN predBuffer'
                 PROVE  predBuffer'[i] >= pred.sent
      BY DEF AtLeast
    <3>1. predBuffer'[i] >= h
      BY <1>3 DEF AtLeast
    <3>2. predBuffer'[i] \in Int /\ h \in Int /\ pred.sent \in Int
      BY <1>3, <2>2, <2>3, Numbers
    <3> QED
      BY <2>2, <3>1, <3>2
  <2> QED
    BY <2>1, <2>2, <2>4
<1>9. ReplayInv'
  BY <1>1, <1>3, <1>4, <1>8 DEF ReplayInv
<1>10. GapInv'
  BY <1>1 DEF IInv, GapInv
<1>11. pred'.sent # pred.sent => pred'.sent > pred.sent
  <2>1. h \in Int /\ pred.sent \in Int
    BY <1>3, <1>8, Numbers
  <2> QED
    BY <1>4, <1>8, <2>1
<1> QED
  BY <1>5, <1>6, <1>7, <1>9, <1>10, <1>11 DEF IInv

LEMMA PredictionsDoneKeeps ==
    ASSUME IInv, PredictionsDone
    PROVE  IInv'
<1>1. /\ phase = "predict" /\ ~PredictionDue /\ phase' = "process"
      /\ UNCHANGED <<onCallback, imuBuffer, predBuffer, lastImu, hasLastImu, pred, frame,
                     pending, consumed, started, initialized, cursor, restored, resets>>
      /\ InFrame /\ InFrame'
  BY DEF PredictionsDone, buffers, stamps, core, InFrame
<1>2. Types'
  BY <1>1 DEF IInv, Types
<1>3. BufferInv' /\ LiveInv'
  BY <1>1 DEF IInv, BufferInv, LiveInv
<1>4. Above(predBuffer, frame.end)
  <2>1. CASE predBuffer = <<>>
    BY <2>1, EmptyFacts
  <2>2. CASE predBuffer # <<>>
    <3>1. predBuffer \in Seq(Stamps) /\ Sorted(predBuffer) /\ frame.end \in Stamps
      BY <1>1 DEF IInv, Types, BufferInv
    <3>2. /\ Head(predBuffer) \in Stamps /\ AtLeast(predBuffer, Head(predBuffer))
          /\ \A i \in DOMAIN predBuffer : predBuffer[i] \in Stamps
      BY <2>2, <3>1, TailFacts
    <3>3. ~ (Head(predBuffer) <= frame.end)
      BY <1>1, <2>2 DEF PredictionDue
    <3>4. ASSUME NEW i \in DOMAIN predBuffer PROVE predBuffer[i] > frame.end
      <4>1. predBuffer[i] >= Head(predBuffer) /\ predBuffer[i] \in Stamps
        BY <3>2 DEF AtLeast
      <4>2. predBuffer[i] \in Int /\ Head(predBuffer) \in Int /\ frame.end \in Int
        BY <3>1, <3>2, <4>1, Numbers
      <4> QED
        BY <3>3, <4>1, <4>2
    <3> QED
      BY <3>4 DEF Above
  <2> QED
    BY <2>1, <2>2
<1>5. ReplayInv'
  BY <1>1, <1>4 DEF IInv, ReplayInv
<1>6. GapInv'
  BY <1>1 DEF IInv, GapInv
<1> QED
  BY <1>2, <1>3, <1>5, <1>6 DEF IInv

-----------------------------------------------------------------------------
(* The processing of a frame *)

Cursors == [imu : Times, end : Times]

LEMMA FrameFacts ==
    ASSUME IInv, phase = "process"
    PROVE  /\ InFrame /\ frame.imu \in Seq(Stamps) /\ frame.imu # <<>>
           /\ frame.end \in Stamps /\ Last(frame.imu) \in Stamps
           /\ consumed = Last(frame.imu) /\ consumed # NoTime
           /\ FrameCursor \in Cursors /\ FrameCursor.imu = consumed
<1>1. InFrame
  BY DEF InFrame
<1>2. /\ frame.imu \in Seq(Stamps) /\ frame.imu # <<>> /\ frame.end \in Stamps
      /\ consumed = Last(frame.imu)
  BY <1>1 DEF IInv, Types, GapInv
<1>3. Last(frame.imu) \in Stamps
  BY <1>2 DEF Last
<1>4. consumed # NoTime
  BY <1>2, <1>3 DEF Stamps, NoTime
<1>5. FrameCursor \in Cursors /\ FrameCursor.imu = consumed
  BY <1>2, <1>3, Numbers DEF FrameCursor, Cursors
<1> QED
  BY <1>1, <1>2, <1>3, <1>4, <1>5

(***************************************************************************)
(* The prediction is left alone or starts anew from some cursor: what was  *)
(* published stays published, and the samples that wait are those later    *)
(* than the cursor.                                                        *)
(***************************************************************************)
LEMMA RearmKeeps ==
    ASSUME IInv, phase = "process", phase' = "sync",
           UNCHANGED <<onCallback, imuBuffer, lastImu, hasLastImu>>,
           \/ UNCHANGED <<pred, predBuffer>>
           \/ \E at : \E c \in Cursors : Rearm(at, c)
    PROVE  /\ BufferInv' /\ LiveInv' /\ ReplayInv' /\ ~InFrame'
           /\ PredType(pred') /\ predBuffer' \in Seq(Stamps) /\ pred'.sent = pred.sent
<1>1. InFrame /\ ~InFrame'
  BY DEF InFrame
<1>2. /\ PredType(pred) /\ predBuffer \in Seq(Stamps) /\ Sorted(predBuffer)
      /\ hasLastImu /\ onCallback \in BOOLEAN
  BY <1>1 DEF IInv, Types, BufferInv
<1>3. /\ predBuffer' \in Seq(Stamps) /\ Sorted(predBuffer')
      /\ \A b : /\ AtMost(predBuffer, b) => AtMost(predBuffer', b)
                /\ AtLeast(predBuffer, b) => AtLeast(predBuffer', b)
      /\ PredType(pred') /\ pred'.sent = pred.sent
      /\ ~onCallback => pred'.from = pred.from /\ pred'.head = pred.head
  <2>1. CASE UNCHANGED <<pred, predBuffer>>
    BY <1>2, <2>1
  <2>2. CASE \E at : \E c \in Cursors : Rearm(at, c)
    <3>0. PICK at : \E c \in Cursors : Rearm(at, c)
      BY <2>2
    <3>4. PICK c \in Cursors : Rearm(at, c)
      BY <3>0
    <3>1. c.imu \in Times /\ c.end \in Times /\ c.end \in Int
      BY Numbers DEF Cursors
    <3>2. CASE onCallback
      <4>1. /\ predBuffer' = Beyond(predBuffer, c.end)
            /\ pred' = [pred EXCEPT !.armed = TRUE, !.at = at, !.head = c.imu,
                                    !.from = c.end]
        BY <3>4, <3>2 DEF Rearm, Rearmed
      <4>2. pred' = [armed |-> TRUE, at |-> at, head |-> c.imu, from |-> c.end,
                     sent |-> pred.sent]
        BY <1>2, <4>1 DEF PredType
      <4>3. PredType(pred') /\ pred'.sent = pred.sent
        BY <1>2, <3>1, <4>2 DEF PredType
      <4> QED
        BY <1>2, <3>1, <3>2, <4>1, <4>3, BeyondKeeps
    <3>3. CASE ~onCallback
      <4>1. predBuffer' = predBuffer /\ pred' = [pred EXCEPT !.armed = TRUE, !.at = at]
        BY <3>4, <3>3 DEF Rearm, Rearmed
      <4>2. pred' = [armed |-> TRUE, at |-> at, head |-> pred.head, from |-> pred.from,
                     sent |-> pred.sent]
        BY <1>2, <4>1 DEF PredType
      <4>3. /\ PredType(pred') /\ pred'.sent = pred.sent
            /\ pred'.from = pred.from /\ pred'.head = pred.head
        BY <1>2, <4>2 DEF PredType
      <4> QED
        BY <1>2, <4>1, <4>3
    <3> QED
      BY <1>2, <3>2, <3>3
  <2> QED
    BY <2>1, <2>2
<1>4. BufferInv'
  BY <1>1, <1>2, <1>3 DEF IInv, BufferInv
<1>5. LiveInv'
  BY <1>3 DEF IInv, LiveInv
<1>6. ReplayInv'
  <2> SUFFICES ASSUME onCallback PROVE ReplayInv'
    BY DEF ReplayInv
  <2>1. /\ pred.sent <= lastImu /\ AtLeast(predBuffer, pred.sent)
        /\ pred.sent <= frame.end /\ Above(imuBuffer, frame.end)
    BY <1>1 DEF IInv, ReplayInv
  <2>2. AtLeast(imuBuffer, pred.sent)
    <3> SUFFICES ASSUME NEW i \in DOMAIN imuBuffer PROVE imuBuffer[i] >= pred.sent
      BY DEF AtLeast
    <3>1. /\ imuBuffer[i] > frame.end /\ imuBuffer[i] \in Stamps
          /\ frame.end \in Stamps /\ pred.sent \in Times
      BY <1>1, <1>2, <2>1 DEF IInv, Types, PredType, Above
    <3>2. imuBuffer[i] \in Int /\ frame.end \in Int /\ pred.sent \in Int
      BY <3>1, Numbers
    <3> QED
      BY <2>1, <3>1, <3>2
  <2>3. AtLeast(predBuffer', pred.sent) /\ phase' # "process"
    BY <1>3, <2>1
  <2> QED
    BY <1>1, <1>3, <2>1, <2>2, <2>3 DEF ReplayInv
<1> QED
  BY <1>1, <1>3, <1>4, <1>5, <1>6

LEMMA ProcessKeeps ==
    ASSUME IInv, Process
    PROVE  IInv' /\ pred'.sent = pred.sent
<1>1. /\ phase = "process" /\ phase' = "sync"
      /\ UNCHANGED <<onCallback, imuBuffer, lastImu, hasLastImu, pending, consumed,
                     resets>>
  BY DEF Process, FirstScan, Initialize, NoUpdate, Commit, Reject, RollBack,
         FrameProcessed, FrameDone, Propagate, buffers, stamps
<1>2. /\ frame.imu # <<>> /\ Last(frame.imu) \in Times
      /\ consumed = Last(frame.imu) /\ consumed # NoTime
      /\ FrameCursor \in Cursors /\ FrameCursor.imu = consumed
      /\ cursor \in Cursors
  BY <1>1, FrameFacts, Numbers DEF IInv, Types, Cursors
<1>3. \* What becomes of the cursor and of the prediction.
      /\ \/ UNCHANGED <<pred, predBuffer>>
         \/ \E at : \E c \in Cursors : Rearm(at, c)
      /\ cursor' \in Cursors
      /\ started' \in BOOLEAN /\ initialized' \in BOOLEAN /\ restored' \in BOOLEAN
      /\ initialized' => started'
      /\ initialized' /\ ~restored' => cursor'.imu = consumed
  <2>1. /\ started \in BOOLEAN /\ initialized \in BOOLEAN /\ restored \in BOOLEAN
        /\ initialized => started
    BY DEF IInv, Types, GapInv
  <2>2. CASE FirstScan
    BY <1>2, <2>1, <2>2 DEF FirstScan, buffers
  <2>3. CASE \E done \in BOOLEAN : Initialize(done)
    <3>0. PICK done \in BOOLEAN : Initialize(done)
      BY <2>3
    <3>1. cursor' \in Cursors /\ (initialized' => cursor'.imu = consumed)
      BY <1>2, <3>0 DEF Initialize, Cursors
    <3> QED
      BY <2>1, <3>0, <3>1 DEF Initialize, buffers
  <2>4. CASE NoUpdate
    BY <1>2, <2>1, <2>4 DEF NoUpdate, FrameProcessed, Propagate
  <2>5. CASE Commit
    BY <1>2, <2>1, <2>5 DEF Commit, FrameProcessed, Propagate
  <2>6. CASE Reject
    BY <1>2, <2>1, <2>6 DEF Reject, FrameProcessed, Propagate
  <2>7. CASE RollBack
    BY <1>2, <2>1, <2>7 DEF RollBack, FrameProcessed
  <2> QED
    BY <2>2, <2>3, <2>4, <2>5, <2>6, <2>7 DEF Process
<1>4. /\ BufferInv' /\ LiveInv' /\ ReplayInv' /\ ~InFrame'
      /\ PredType(pred') /\ predBuffer' \in Seq(Stamps) /\ pred'.sent = pred.sent
  BY <1>1, <1>3, RearmKeeps
<1>5. Types'
  BY <1>1, <1>3, <1>4 DEF IInv, Types, Cursors
<1>6. GapInv'
  BY <1>1, <1>2, <1>3, <1>4 DEF GapInv
<1> QED
  BY <1>4, <1>5, <1>6 DEF IInv

LEMMA NextKeeps ==
    ASSUME IInv, [Next]_vars
    PROVE  IInv'
<1>1. CASE UNCHANGED vars
  BY <1>1 DEF vars, core, buffers, stamps, IInv, Types, BufferInv, LiveInv, ReplayInv,
              GapInv, InFrame
<1>2. ASSUME NEW t \in Stamps, ReceiveScan(t) \/ ReceiveImu(t)
      PROVE  IInv'
  BY <1>2, ScanKeeps, ImuKeeps
<1>3. CASE TimerFires \/ Synchronize
  BY <1>3, WaitsKeep, SkipGapKeeps, ReleaseKeeps, PredictKeeps, PredictionsDoneKeeps
  DEF Synchronize
<1>4. CASE Process
  BY <1>4, ProcessKeeps
<1> QED
  BY <1>1, <1>2, <1>3, <1>4 DEF Next

LEMMA Inductive == Spec => []IInv
<1>1. Init => IInv
  BY InitIInv
<1>2. IInv /\ [Next]_vars => IInv'
  BY NextKeeps
<1> QED
  BY <1>1, <1>2, PTL DEF Spec

-----------------------------------------------------------------------------
(* The time the filter stands for *)

(***************************************************************************)
(* An initialized filter stands for an instant up to the cursor, no sample *)
(* that waits is older than the cursor, and none that a frame holds: each  *)
(* step of undistortPointCloud but the first starts where the one before   *)
(* it ended, and the first is cut at the cursor.                           *)
(***************************************************************************)
CursorInv ==
    initialized =>
        /\ hasLastImu
        /\ cursor.imu \in Stamps /\ cursor.end \in Stamps
        /\ cursor.imu <= cursor.end /\ cursor.end <= lastImu
        /\ kf \in Stamps /\ kf <= cursor.end
        /\ ~InFrame => AtLeast(imuBuffer, cursor.end)
        /\ InFrame => AtLeast(frame.imu, cursor.end)

FrameInv ==
    InFrame => /\ AtMost(frame.imu, frame.end) /\ frame.end <= lastImu
               /\ Above(imuBuffer, frame.end)

(***************************************************************************)
(* The prediction filter is armed from the filter, and reset with it.  In  *)
(* replay its time is that of its state up to the lag of the filter; live, *)
(* its state stands for no instant beyond the last sample.                 *)
(***************************************************************************)
PredInv ==
    /\ ~pred.armed => pred = Disarmed
    /\ pred.armed => initialized /\ pred.at \in Stamps
    /\ pred.armed /\ onCallback => pred.from \in Stamps /\ pred.from - pred.at \in 0 .. Lag
    /\ pred.armed /\ ~onCallback => /\ pred.at <= lastImu
                                    /\ pred.head # NoTime => pred.head = lastImu

TimeInv == CursorInv /\ FrameInv /\ PredInv

(***************************************************************************)
(* A frame moves the filter by what it adds to the cursor.                 *)
(***************************************************************************)
LEMMA PropagationFacts ==
    ASSUME IInv, TimeInv, phase = "process", initialized
    PROVE  /\ Propagated = kf + (frame.end - cursor.end)
           /\ cursor.end <= frame.end /\ Last(frame.imu) <= frame.end
<1> DEFINE n == Len(frame.imu)
           path == <<cursor.imu>> \o frame.imu
           p == [i \in 1 .. n + 1 |-> IF i = 1 THEN cursor.end ELSE frame.imu[i - 1]]
           D == DOMAIN FrameSteps
<1>1. /\ InFrame /\ frame.imu \in Seq(Stamps) /\ n \in Nat \ {0}
      /\ frame.end \in Int /\ Last(frame.imu) = frame.imu[n] /\ Last(frame.imu) \in Int
  <2>1. /\ InFrame /\ frame.imu \in Seq(Stamps) /\ frame.imu # <<>>
        /\ frame.end \in Stamps /\ Last(frame.imu) \in Stamps
    BY FrameFacts
  <2>2. n \in Nat \ {0} /\ Last(frame.imu) = frame.imu[n]
    BY <2>1 DEF Last
  <2> QED
    BY <2>1, <2>2, Numbers
<1>2. /\ cursor.imu \in Int /\ cursor.end \in Int /\ kf \in Int /\ cursor.imu <= cursor.end
      /\ AtLeast(frame.imu, cursor.end) /\ AtMost(frame.imu, frame.end)
  BY <1>1, Numbers DEF TimeInv, CursorInv, FrameInv
<1>3. \A i \in 1 .. n : /\ frame.imu[i] \in Int
                        /\ cursor.end <= frame.imu[i] /\ frame.imu[i] <= frame.end
  <2> SUFFICES ASSUME NEW i \in 1 .. n
               PROVE  /\ frame.imu[i] \in Int
                      /\ cursor.end <= frame.imu[i] /\ frame.imu[i] <= frame.end
    OBVIOUS
  <2>1. i \in DOMAIN frame.imu /\ frame.imu[i] \in Stamps
    BY <1>1
  <2> QED
    BY <1>2, <2>1, Numbers DEF AtLeast, AtMost
<1>4. /\ path[1] = cursor.imu /\ \A i \in 1 .. n : path[i + 1] = frame.imu[i]
  BY <1>1
<1> HIDE DEF path
<1>5. /\ FrameSteps = [i \in {j \in 1 .. n : path[j + 1] >= cursor.end}
                         |-> path[i + 1] - StepStart(path[i])]
  BY DEF FrameSteps, path
<1>6. {j \in 1 .. n : path[j + 1] >= cursor.end} = 1 .. n
  <2>1. \A j \in 1 .. n : path[j + 1] >= cursor.end
    BY <1>2, <1>3, <1>4
  <2> QED
    BY <2>1
<1>14. FrameSteps = [i \in 1 .. n |-> path[i + 1] - StepStart(path[i])]
  BY <1>5, <1>6
<1>7. ASSUME NEW i \in 1 .. n + 1
      PROVE  p[i] \in Int
  <2>1. CASE i = 1
    BY <1>2, <2>1
  <2>2. CASE i # 1
    <3>1. i - 1 \in 1 .. n
      BY <1>1, <2>2
    <3> QED
      BY <1>3, <2>2, <3>1
  <2> QED
    BY <2>1, <2>2
<1>8. ASSUME NEW i \in 1 .. n
      PROVE  FrameSteps[i] = p[i + 1] - p[i]
  <2>1. /\ FrameSteps[i] = path[i + 1] - StepStart(path[i]) /\ path[i + 1] = frame.imu[i]
        /\ i \in 1 .. n + 1 /\ i + 1 \in 1 .. n + 1 /\ i + 1 # 1 /\ (i + 1) - 1 = i
    BY <1>1, <1>4, <1>14
  <2>2. p[i + 1] = frame.imu[i]
    BY <2>1
  <2>3. StepStart(path[i]) = p[i]
    <3>1. CASE i = 1
      <4>1. Max({cursor.imu, cursor.end}) = cursor.end
        BY <1>2, MaxOfTwo
      <4> QED
        BY <1>4, <2>1, <3>1, <4>1 DEF StepStart
    <3>2. CASE i # 1
      <4>1. i - 1 \in 1 .. n /\ (i - 1) + 1 = i
        BY <1>1, <3>2
      <4>2. path[i] = frame.imu[i - 1] /\ p[i] = frame.imu[i - 1]
        <5>1. path[(i - 1) + 1] = frame.imu[i - 1]
          BY <1>4, <4>1
        <5> QED
          BY <2>1, <3>2, <4>1, <5>1
      <4>3. Max({frame.imu[i - 1], cursor.end}) = frame.imu[i - 1]
        BY ZenonT(30), <1>2, <1>3, <4>1, MaxOfTwo
      <4> QED
        BY <4>2, <4>3 DEF StepStart
    <3> QED
      BY <3>1, <3>2
  <2> QED
    BY <2>1, <2>2, <2>3
<1>9. /\ p[1] = cursor.end /\ p[n + 1] = Last(frame.imu) /\ n \in 1 .. n
  <2>1. n + 1 # 1 /\ (n + 1) - 1 = n /\ 1 \in 1 .. n + 1 /\ n + 1 \in 1 .. n + 1
    BY <1>1
  <2> QED
    BY <1>1, <2>1
<1>10. D = 1 .. n /\ D # {}
  <2>1. D = 1 .. n
    <3> HIDE DEF n
    <3> QED
      BY <1>14
  <2> QED
    BY <1>9, <2>1
<1> HIDE DEF p, D
<1>11. SumOf(FrameSteps, D) = Last(frame.imu) - cursor.end
  <2>1. /\ \A i \in 1 .. n + 1 : p[i] \in Int
        /\ \A i \in 1 .. n : FrameSteps[i] = p[i + 1] - p[i]
    BY <1>7, <1>8
  <2>2. SumOf(FrameSteps, 1 .. n) = p[n + 1] - p[1]
    <3> HIDE DEF n
    <3> QED
      BY <1>1, <2>1, StepsAddUp
  <2> QED
    BY <1>9, <1>10, <2>2
<1>12. Propagated = kf + SumOf(FrameSteps, D) + TailStep
  BY <1>10 DEF Propagated, SumOf, D
<1>13. cursor.end <= frame.end /\ Last(frame.imu) <= frame.end
  BY <1>1, <1>2, <1>3, <1>9
<1> QED
  BY <1>1, <1>2, <1>11, <1>12, <1>13 DEF TailStep

LEMMA TimeInit == Init => TimeInv
BY DEF Init, TimeInv, CursorInv, FrameInv, PredInv, InFrame, Disarmed

(***************************************************************************)
(* A stamp that moves backwards disarms the prediction with the filter.    *)
(***************************************************************************)
LEMMA ResetTime ==
    ASSUME ResetCore, pred' = Disarmed, phase' \in {"idle", "sync"}
    PROVE  TimeInv'
BY DEF ResetCore, TimeInv, CursorInv, FrameInv, PredInv, InFrame, Disarmed

LEMMA ScanTime ==
    ASSUME IInv, TimeInv, NEW b \in Stamps, ReceiveScan(b)
    PROVE  TimeInv'
<1>1. /\ onCallback' = onCallback /\ lastImu' = lastImu /\ frame' = frame
      /\ phase = "idle" /\ phase' \in {"idle", "sync"} /\ ~InFrame /\ ~InFrame'
  BY DEF ReceiveScan, AfterCallback, InFrame
<1>2. CASE lastLidar # NoTime /\ b < lastLidar
  BY <1>1, <1>2, ResetTime DEF ReceiveScan
<1>3. CASE ~ (lastLidar # NoTime /\ b < lastLidar)
  <2>1. UNCHANGED <<initialized, hasLastImu, cursor, kf, imuBuffer, pred>>
    BY <1>3 DEF ReceiveScan, core
  <2> QED
    BY <1>1, <2>1 DEF TimeInv, CursorInv, FrameInv, PredInv, Lag
<1> QED
  BY <1>2, <1>3

(***************************************************************************)
(* Live, a step of the prediction ends at the sample at the latest.        *)
(***************************************************************************)
LEMMA IntegrateTime ==
    ASSUME NEW p, PredType(p), NEW s \in Stamps, p.at \in Stamps
    PROVE  LET q == Integrate(p, s)
           IN  /\ q.armed = p.armed
               /\ p.from = NoTime /\ p.at <= s /\ (p.head # NoTime => p.at <= p.head)
                    => q.at \in Stamps /\ q.at <= s
               /\ p.from # NoTime /\ p.from < s /\ p.at <= p.from
                    => q.at \in Stamps /\ q.from \in Stamps /\ q.from - q.at = p.from - p.at
<1> DEFINE d == s - (IF p.from # NoTime THEN p.from ELSE p.head)
           q == Integrate(p, s)
<1>0. /\ s \in Int /\ p.head \in Times /\ p.from \in Times /\ p.head \in Int /\ p.from \in Int
      /\ p.at \in Int /\ MaxTime \in Nat /\ s <= MaxTime /\ 1 <= p.at /\ p.at <= MaxTime
      /\ MaxGap \in Nat /\ (p.from # NoTime => p.from \in Stamps)
  BY SyncAssumption, Numbers DEF PredType, Times, Stamps
<1>1. CASE p.head = NoTime \/ d <= 0 \/ d > MaxGap
  <2>1. q = [p EXCEPT !.head = s]
    BY <1>1 DEF Integrate
  <2>2. q = [armed |-> p.armed, at |-> p.at, head |-> s, from |-> p.from,
             sent |-> p.sent]
    BY <2>1 DEF PredType
  <2> HIDE DEF q
  <2> QED
    BY <1>0, <2>2 DEF q
<1>2. CASE ~ (p.head = NoTime \/ d <= 0 \/ d > MaxGap)
  <2>1. q = [p EXCEPT !.at = @ + d, !.head = s, !.sent = s,
                      !.from = IF @ # NoTime THEN s ELSE @]
    BY <1>2 DEF Integrate
  <2>2. q = [armed |-> p.armed, at |-> p.at + d, head |-> s,
             from |-> IF p.from # NoTime THEN s ELSE p.from, sent |-> s]
    BY <2>1 DEF PredType
  <2>3. /\ q.armed = p.armed /\ q.at = p.at + d
        /\ q.from = IF p.from # NoTime THEN s ELSE p.from
    <3> HIDE DEF d, q
    <3> QED
      BY <2>2
  <2>4. d > 0 /\ d \in Int
    BY <1>0, <1>2
  <2>5. ASSUME p.from = NoTime, p.at <= s, p.head # NoTime => p.at <= p.head
        PROVE  q.at \in Stamps /\ q.at <= s
    <3>1. d = s - p.head /\ p.head # NoTime
      BY <1>2, <2>5
    <3>2. p.at + d <= s /\ 1 <= p.at + d /\ p.at + d \in Int
      BY <1>0, <2>4, <2>5, <3>1
    <3> QED
      BY <1>0, <2>3, <3>2 DEF Stamps
  <2>6. ASSUME p.from # NoTime, p.from < s, p.at <= p.from
        PROVE  q.at \in Stamps /\ q.from \in Stamps /\ q.from - q.at = p.from - p.at
    <3>1. d = s - p.from /\ q.from = s
      BY <2>3, <2>6
    <3>2. p.at + d <= s /\ 1 <= p.at + d /\ p.at + d \in Int /\ s - (p.at + d) = p.from - p.at
      BY <1>0, <2>4, <2>6, <3>1
    <3> QED
      BY <1>0, <2>3, <3>1, <3>2 DEF Stamps
  <2> QED
    BY <2>3, <2>5, <2>6
<1> QED
  BY <1>1, <1>2

LEMMA ImuTime ==
    ASSUME IInv, TimeInv, NEW s \in Stamps, ReceiveImu(s)
    PROVE  TimeInv'
<1>1. /\ onCallback' = onCallback /\ lastImu' = s /\ hasLastImu' = TRUE /\ frame' = frame
      /\ phase = "idle" /\ phase' \in {"idle", "sync"} /\ ~InFrame /\ ~InFrame'
      /\ onCallback \in BOOLEAN /\ lastImu \in Times /\ lastImu \in Int /\ s \in Int
  BY Numbers DEF ReceiveImu, AfterCallback, InFrame, IInv, Types
<1>2. CASE hasLastImu /\ s < lastImu
  BY <1>1, <1>2, ResetTime DEF ReceiveImu
<1>3. CASE ~ (hasLastImu /\ s < lastImu)
  <2>1. /\ imuBuffer' = Push(imuBuffer, ImuCapacity, s)
        /\ pred' = IF ~onCallback /\ pred.armed THEN Integrate(pred, s) ELSE pred
        /\ UNCHANGED <<initialized, cursor, kf>>
    BY <1>3 DEF ReceiveImu, core
  <2>2. hasLastImu => lastImu <= s
    BY <1>1, <1>3 DEF IInv, Types
  <2>3. CursorInv'
    <3> SUFFICES ASSUME initialized PROVE CursorInv'
      BY <2>1 DEF CursorInv
    <3>1. /\ hasLastImu /\ cursor.end \in Stamps /\ cursor.end <= lastImu /\ lastImu <= s
          /\ AtLeast(imuBuffer, cursor.end) /\ cursor.end \in Times /\ cursor.end \in Int
      BY <1>1, <2>2, Numbers DEF TimeInv, CursorInv
    <3>2. /\ imuBuffer \in Seq(Stamps) /\ Sorted(imuBuffer) /\ AtMost(imuBuffer, lastImu)
          /\ ImuCapacity \in Nat \ {0}
      BY SyncAssumption DEF IInv, Types, BufferInv
    <3>3. AtLeast(imuBuffer', cursor.end)
      BY <1>1, <2>1, <3>1, <3>2, PushKeeps
    <3>4. cursor.end <= s
      BY <1>1, <3>1
    <3> QED
      BY <1>1, <2>1, <3>3, <3>4 DEF TimeInv, CursorInv
  <2>4. FrameInv'
    BY <1>1 DEF FrameInv
  <2>5. PredInv'
    <3>1. CASE ~onCallback /\ pred.armed
      <4>1. /\ initialized /\ pred.at \in Stamps /\ pred.at <= lastImu /\ lastImu <= s
            /\ pred.head # NoTime => pred.head = lastImu
            /\ pred.from = NoTime /\ PredType(pred) /\ pred.at \in Int
        BY <2>2, <3>1, Numbers DEF TimeInv, PredInv, CursorInv, IInv, LiveInv, Types
      <4>2. /\ pred' = Integrate(pred, s) /\ pred.at <= s
            /\ pred.head # NoTime => pred.at <= pred.head
        BY <1>1, <2>1, <3>1, <4>1
      <4>3. pred'.armed = TRUE /\ pred'.at \in Stamps /\ pred'.at <= s
        BY <3>1, <4>1, <4>2, IntegrateTime, Zenon DEF PredType
      <4>4. pred'.head = s
        BY <4>1, <4>2, IntegrateFacts
      <4> QED
        BY <1>1, <2>1, <3>1, <4>1, <4>3, <4>4 DEF PredInv
    <3>2. CASE ~ (~onCallback /\ pred.armed)
      <4>1. pred' = pred
        BY <2>1, <3>2
      <4> QED
        BY <1>1, <2>1, <3>2, <4>1 DEF TimeInv, PredInv, Lag
    <3> QED
      BY <3>1, <3>2
  <2> QED
    BY <2>3, <2>4, <2>5 DEF TimeInv
<1> QED
  BY <1>2, <1>3

LEMMA WaitsTime ==
    ASSUME IInv, TimeInv,
           TimerFires \/ WaitForInput \/ TakeScan \/ WaitForImu \/ SkipUncovered
    PROVE  TimeInv'
<1>1. /\ ~InFrame /\ ~InFrame'
      /\ UNCHANGED <<onCallback, imuBuffer, lastImu, hasLastImu, pred, initialized, cursor,
                     kf>>
  BY DEF TimerFires, WaitForInput, TakeScan, WaitForImu, SkipUncovered, ScanInHand, InFrame,
         buffers, stamps, core
<1> QED
  BY <1>1 DEF TimeInv, CursorInv, FrameInv, PredInv, Lag

(***************************************************************************)
(* The samples of a scan are none before the cursor; those that are left   *)
(* are beyond its end, which has been passed by the last one.              *)
(***************************************************************************)
LEMMA ConsumeTime ==
    ASSUME IInv, TimeInv, ScanInHand, ImuArrived,
           Consume(UpTo(imuBuffer, pending.end))
    PROVE  LET imu == UpTo(imuBuffer, pending.end)
           IN  /\ pending.end \in Stamps /\ pending.end <= lastImu
               /\ imu \in Seq(Stamps) /\ imu # <<>> /\ AtMost(imu, pending.end)
               /\ Last(imu) \in Stamps /\ Last(imu) <= pending.end
               /\ Above(imuBuffer', pending.end) /\ AtLeast(imuBuffer', pending.end)
               /\ hasLastImu
               /\ initialized => AtLeast(imu, cursor.end) /\ cursor.end <= pending.end
<1> DEFINE imu == UpTo(imuBuffer, pending.end)
<1>1. /\ pending.end \in Stamps /\ imu \in Seq(Stamps) /\ imu # <<>>
      /\ Last(imu) \in Stamps /\ AtMost(imu, pending.end)
      /\ imuBuffer' \in Seq(Stamps) /\ Above(imuBuffer', pending.end) /\ hasLastImu
      /\ \A b \in Times : AtLeast(imuBuffer, b) => b <= pending.end
  BY ConsumeFacts
<1>2. pending.end <= lastImu
  BY <1>1, Numbers DEF ImuArrived, IInv, Types
<1>3. AtLeast(imuBuffer', pending.end)
  <2> SUFFICES ASSUME NEW i \in DOMAIN imuBuffer' PROVE imuBuffer'[i] >= pending.end
    BY DEF AtLeast
  <2>1. imuBuffer'[i] \in Stamps /\ imuBuffer'[i] > pending.end
    BY <1>1 DEF Above
  <2>2. imuBuffer'[i] \in Int /\ pending.end \in Int
    BY <1>1, <2>1, Numbers
  <2> QED
    BY <2>1, <2>2
<1>4. Last(imu) <= pending.end
  <2> HIDE DEF imu
  <2>1. Len(imu) \in DOMAIN imu /\ Last(imu) = imu[Len(imu)]
    BY <1>1 DEF Last
  <2> QED
    BY <1>1, <2>1 DEF AtMost
<1>5. ASSUME initialized
      PROVE  AtLeast(imu, cursor.end) /\ cursor.end <= pending.end
  <2>1. ~InFrame
    BY DEF ScanInHand, InFrame
  <2>2. AtLeast(imuBuffer, cursor.end) /\ cursor.end \in Times
    BY <1>5, <2>1, Numbers DEF TimeInv, CursorInv
  <2>3. /\ imuBuffer \in Seq(Stamps) /\ Sorted(imuBuffer) /\ pending.end \in Int
    BY <1>1, Numbers DEF IInv, Types, BufferInv
  <2>4. \A i \in DOMAIN imu : \E j \in DOMAIN imuBuffer : imu[i] = imuBuffer[j]
    BY <2>3, SplitFacts
  <2> HIDE DEF imu
  <2> QED
    BY <1>1, <2>2, <2>4 DEF AtLeast
<1> QED
  BY <1>1, <1>2, <1>3, <1>4, <1>5

(***************************************************************************)
(* A skipped frame lets the filter fall behind the cursor.                 *)
(***************************************************************************)
LEMMA SkipGapTime ==
    ASSUME IInv, TimeInv, SkipGap
    PROVE  TimeInv'
<1> DEFINE imu == UpTo(imuBuffer, pending.end)
<1>1. /\ ScanInHand /\ ImuArrived /\ Consume(imu)
      /\ cursor' = [imu |-> Last(imu), end |-> pending.end]
      /\ phase' = "idle" /\ ~InFrame /\ ~InFrame'
      /\ UNCHANGED <<onCallback, lastImu, hasLastImu, initialized, kf, pred>>
  BY DEF SkipGap, ScanInHand, stamps, InFrame
<1>2. /\ pending.end \in Stamps /\ pending.end <= lastImu
      /\ Last(imu) \in Stamps /\ Last(imu) <= pending.end
      /\ AtLeast(imuBuffer', pending.end) /\ hasLastImu
      /\ initialized => cursor.end <= pending.end
  BY <1>1, ConsumeTime
<1> HIDE DEF imu
<1>3. cursor'.imu = Last(imu) /\ cursor'.end = pending.end
  BY <1>1
<1>4. initialized => /\ kf \in Stamps /\ kf <= cursor.end /\ kf \in Int
                     /\ cursor.end \in Int /\ pending.end \in Int
                     /\ kf <= pending.end
  <2> SUFFICES ASSUME initialized
               PROVE  /\ kf \in Stamps /\ kf <= cursor.end /\ kf \in Int
                      /\ cursor.end \in Int /\ pending.end \in Int
                      /\ kf <= pending.end
    OBVIOUS
  <2>1. kf \in Stamps /\ kf <= cursor.end /\ cursor.end \in Stamps
    BY DEF TimeInv, CursorInv
  <2>2. kf \in Int /\ cursor.end \in Int /\ pending.end \in Int
    BY <1>2, <2>1, Numbers
  <2> QED
    BY <1>2, <2>1, <2>2
<1>5. CursorInv'
  BY <1>1, <1>2, <1>3, <1>4 DEF CursorInv
<1>6. FrameInv'
  BY <1>1 DEF FrameInv
<1>7. PredInv'
  <2>1. ASSUME pred.armed, onCallback
        PROVE  pred.from \in Stamps /\ pred.from - pred.at \in 0 .. Lag'
    <3>1. /\ initialized /\ pred.at \in Stamps /\ pred.from \in Stamps
          /\ pred.from - pred.at \in 0 .. Lag
      BY <2>1 DEF TimeInv, PredInv
    <3>2. Lag \in Int /\ Lag' \in Int /\ Lag <= Lag'
      BY <1>1, <1>2, <1>3, <1>4, <3>1 DEF Lag
    <3> QED
      BY <3>1, <3>2, Numbers
  <2> QED
    BY <1>1, <2>1 DEF TimeInv, PredInv
<1> QED
  BY <1>5, <1>6, <1>7 DEF TimeInv

LEMMA ReleaseTime ==
    ASSUME IInv, TimeInv, Release
    PROVE  TimeInv'
<1> DEFINE imu == UpTo(imuBuffer, pending.end)
<1>1. /\ ScanInHand /\ ImuArrived /\ Consume(imu)
      /\ frame' = [imu |-> imu, end |-> pending.end]
      /\ phase' = IF onCallback THEN "predict" ELSE "process"
      /\ UNCHANGED <<onCallback, lastImu, hasLastImu, initialized, cursor, kf, pred>>
  BY DEF Release, stamps
<1>2. /\ pending.end \in Stamps /\ pending.end <= lastImu
      /\ AtMost(imu, pending.end) /\ Above(imuBuffer', pending.end)
      /\ initialized => AtLeast(imu, cursor.end)
  BY <1>1, ConsumeTime
<1> HIDE DEF imu
<1>3. InFrame' /\ frame'.imu = imu /\ frame'.end = pending.end
  BY <1>1 DEF InFrame
<1>4. CursorInv'
  BY <1>1, <1>2, <1>3 DEF TimeInv, CursorInv
<1>5. FrameInv'
  BY <1>1, <1>2, <1>3 DEF FrameInv
<1>6. PredInv'
  BY <1>1 DEF TimeInv, PredInv, Lag
<1> QED
  BY <1>4, <1>5, <1>6 DEF TimeInv

LEMMA PredictTime ==
    ASSUME IInv, TimeInv, Predict
    PROVE  TimeInv'
<1>1. /\ phase = "predict" /\ predBuffer # <<>>
      /\ pred' = IF ~pred.armed \/ Head(predBuffer) <= pred.from
                   THEN pred ELSE Integrate(pred, Head(predBuffer))
      /\ UNCHANGED <<onCallback, imuBuffer, lastImu, hasLastImu, initialized, cursor, kf,
                     frame, phase>>
      /\ InFrame /\ InFrame'
  BY DEF Predict, PredictionDue, stamps, core, InFrame
<1>2. CursorInv' /\ FrameInv'
  BY <1>1 DEF TimeInv, CursorInv, FrameInv
<1>3. PredInv'
  <2>1. CASE ~pred.armed \/ Head(predBuffer) <= pred.from
    BY <1>1, <2>1 DEF TimeInv, PredInv, Lag
  <2>2. CASE ~ (~pred.armed \/ Head(predBuffer) <= pred.from)
    <3> DEFINE h == Head(predBuffer)
    <3>1. /\ predBuffer \in Seq(Stamps) /\ Sorted(predBuffer) /\ PredType(pred)
          /\ onCallback
      BY <1>1 DEF IInv, Types, BufferInv, LiveInv
    <3>2. h \in Stamps /\ h \in Int
      BY <1>1, <3>1, TailFacts, Numbers
    <3> HIDE DEF h
    <3>3. /\ initialized /\ pred.at \in Stamps /\ pred.from \in Stamps
          /\ pred.from - pred.at \in 0 .. Lag /\ pred.at \in Int /\ pred.from \in Int
      BY <2>2, <3>1, Numbers DEF TimeInv, PredInv
    <3>4. Lag \in Int
      <4>1. cursor.end \in Stamps /\ kf \in Stamps
        BY <3>3 DEF TimeInv, CursorInv
      <4>2. cursor.end \in Int /\ kf \in Int
        BY <4>1, Numbers
      <4> QED
        BY <4>2 DEF Lag
    <3>5. /\ pred' = Integrate(pred, h) /\ pred.from # NoTime /\ pred.from < h
          /\ pred.at <= pred.from
      <4>1. ~ (h <= pred.from)
        BY <2>2 DEF h
      <4>2. pred.from < h
        BY <3>2, <3>3, <4>1
      <4>3. pred.at <= pred.from /\ pred.from # NoTime
        BY <3>3, <3>4 DEF Stamps, NoTime
      <4> QED
        BY <1>1, <2>2, <4>2, <4>3 DEF h
    <3>6. /\ pred'.armed = TRUE /\ pred'.at \in Stamps /\ pred'.from \in Stamps
          /\ pred'.from - pred'.at = pred.from - pred.at
      <4>1. pred.armed = TRUE
        BY <2>2, <3>1 DEF PredType
      <4> QED
        BY <3>1, <3>2, <3>3, <3>5, <4>1, IntegrateTime
    <3> QED
      BY <1>1, <3>1, <3>3, <3>6 DEF PredInv, Lag
  <2> QED
    BY <2>1, <2>2
<1> QED
  BY <1>2, <1>3 DEF TimeInv

LEMMA PredictionsDoneTime ==
    ASSUME IInv, TimeInv, PredictionsDone
    PROVE  TimeInv'
<1>1. /\ InFrame /\ InFrame'
      /\ UNCHANGED <<onCallback, imuBuffer, lastImu, hasLastImu, pred, frame, initialized,
                     cursor, kf>>
  BY DEF PredictionsDone, buffers, stamps, core, InFrame
<1> QED
  BY <1>1 DEF TimeInv, CursorInv, FrameInv, PredInv, Lag

(***************************************************************************)
(* A processed frame: the lag stays, or a correction removes it.           *)
(***************************************************************************)
LEMMA ProcessTime ==
    ASSUME IInv, TimeInv, Process
    PROVE  /\ TimeInv'
           /\ initialized => Lag' \in {Lag, 0} /\ Lag' >= 0
<1>1. /\ phase = "process" /\ phase' = "sync" /\ InFrame /\ ~InFrame'
      /\ UNCHANGED <<onCallback, imuBuffer, lastImu, hasLastImu>>
      /\ onCallback \in BOOLEAN
  BY DEF Process, FirstScan, Initialize, NoUpdate, Commit, Reject, RollBack,
         FrameProcessed, FrameDone, Propagate, buffers, stamps, InFrame, IInv, Types
<1>2. /\ frame.imu \in Seq(Stamps) /\ frame.imu # <<>>
      /\ frame.end \in Stamps /\ frame.end \in Int /\ frame.end <= lastImu
      /\ Last(frame.imu) \in Stamps /\ Last(frame.imu) <= frame.end
      /\ lastImu \in Int /\ hasLastImu
      /\ Above(imuBuffer, frame.end) /\ AtLeast(imuBuffer, frame.end)
  <2>1. /\ frame.imu \in Seq(Stamps) /\ frame.imu # <<>> /\ frame.end \in Stamps
        /\ Last(frame.imu) \in Stamps /\ frame.end <= lastImu /\ hasLastImu
        /\ Above(imuBuffer, frame.end) /\ AtMost(frame.imu, frame.end)
        /\ lastImu \in Times /\ imuBuffer \in Seq(Stamps)
    BY <1>1, FrameFacts DEF TimeInv, FrameInv, IInv, BufferInv, Types
  <2>2. frame.end \in Int /\ lastImu \in Int
    BY <2>1, Numbers
  <2>3. Last(frame.imu) <= frame.end
    <3>1. Len(frame.imu) \in DOMAIN frame.imu /\ Last(frame.imu) = frame.imu[Len(frame.imu)]
      BY <2>1 DEF Last
    <3> QED
      BY <2>1, <3>1 DEF AtMost
  <2>4. AtLeast(imuBuffer, frame.end)
    <3> SUFFICES ASSUME NEW i \in DOMAIN imuBuffer PROVE imuBuffer[i] >= frame.end
      BY DEF AtLeast
    <3>1. imuBuffer[i] \in Stamps /\ imuBuffer[i] > frame.end
      BY <2>1 DEF Above
    <3>2. imuBuffer[i] \in Int
      BY <3>1, Numbers
    <3> QED
      BY <2>2, <3>1, <3>2
  <2> QED
    BY <2>1, <2>2, <2>3, <2>4
<1>3. FrameInv'
  BY <1>1 DEF FrameInv
<1>4. FrameCursor.imu = Last(frame.imu) /\ FrameCursor.end = frame.end
  BY DEF FrameCursor
<1>5. CASE FirstScan
  <2>1. UNCHANGED <<initialized, cursor, kf, pred>> /\ ~initialized
    BY <1>5 DEF FirstScan, IInv, GapInv
  <2> QED
    BY <1>1, <1>3, <2>1 DEF TimeInv, CursorInv, PredInv
<1>6. ASSUME NEW done \in BOOLEAN, Initialize(done)
      PROVE  TimeInv' /\ ~initialized
  <2>1. /\ ~initialized /\ initialized' = done /\ pred' = pred
        /\ done => cursor' = FrameCursor /\ kf' = frame.end
    BY <1>6 DEF Initialize
  <2>2. CursorInv'
    BY <1>1, <1>2, <1>4, <2>1 DEF CursorInv
  <2>3. PredInv'
    BY <1>1, <2>1 DEF TimeInv, PredInv
  <2> QED
    BY <1>3, <2>1, <2>2, <2>3 DEF TimeInv
<1>7. CASE NoUpdate \/ Commit \/ Reject \/ RollBack
  <2>0. initialized /\ initialized'
    <3>1. FrameProcessed
      BY <1>7 DEF NoUpdate, Commit, Reject, RollBack
    <3>2. initialized /\ initialized' = initialized
      BY <3>1 DEF FrameProcessed
    <3> QED
      BY <3>2, Zenon
  <2>1. /\ cursor.imu \in Stamps /\ cursor.end \in Stamps /\ cursor.imu <= cursor.end
        /\ cursor.end <= lastImu /\ kf \in Stamps /\ kf <= cursor.end
        /\ cursor.end \in Int /\ kf \in Int
    BY <2>0, Numbers DEF TimeInv, CursorInv
  <2>2. Propagated = kf + (frame.end - cursor.end) /\ cursor.end <= frame.end
    BY <1>1, <2>0, PropagationFacts
  <2>3. /\ Propagated \in Stamps /\ Propagated <= frame.end
        /\ frame.end - Propagated = cursor.end - kf
    <3>1. 1 <= kf /\ frame.end <= MaxTime /\ MaxTime \in Nat
      BY <1>2, <2>1, SyncAssumption DEF Stamps
    <3>2. /\ 1 <= Propagated /\ Propagated <= frame.end /\ Propagated \in Int
          /\ frame.end - Propagated = cursor.end - kf
      BY <1>2, <2>1, <2>2, <3>1
    <3> QED
      BY <1>2, <3>1, <3>2 DEF Stamps
  <2>4. /\ kf' \in Stamps /\ kf' <= cursor'.end
        /\ cursor'.imu \in Stamps /\ cursor'.end \in Stamps
        /\ cursor'.imu <= cursor'.end /\ cursor'.end <= lastImu
        /\ AtLeast(imuBuffer, cursor'.end)
        /\ Lag' = Lag \/ Lag' = 0
        /\ \/ pred' = pred /\ Lag' = Lag
           \/ pred' = Rearmed(kf', cursor')
    <3>1. CASE RollBack
      <4>1. UNCHANGED <<kf, cursor>> /\ pred' = Rearmed(kf, cursor)
        BY <3>1 DEF RollBack, Rearm
      <4>2. AtLeast(imuBuffer, cursor.end)
        <5> SUFFICES ASSUME NEW i \in DOMAIN imuBuffer PROVE imuBuffer[i] >= cursor.end
          BY DEF AtLeast
        <5>1. imuBuffer[i] \in Stamps /\ imuBuffer[i] >= frame.end
          BY <1>2 DEF AtLeast, IInv, Types
        <5>2. imuBuffer[i] \in Int
          BY <5>1, Numbers
        <5> QED
          BY <1>2, <2>1, <2>2, <5>1, <5>2
      <4> QED
        BY <2>1, <4>1, <4>2 DEF Lag
    <3>2. CASE Commit
      <4>1. cursor' = FrameCursor /\ kf' = frame.end /\ pred' = Rearmed(frame.end, FrameCursor)
        BY <3>2 DEF Commit, Propagate, Rearm
      <4>2. Lag' = 0
        BY <1>2, <1>4, <4>1 DEF Lag
      <4> QED
        BY <1>2, <1>4, <4>1, <4>2
    <3>3. CASE NoUpdate \/ Reject
      <4>1. /\ cursor' = FrameCursor /\ kf' = Propagated
            /\ pred' = pred \/ pred' = Rearmed(Propagated, FrameCursor)
        BY <3>3 DEF NoUpdate, Reject, Propagate, Rearm
      <4>2. Lag' = Lag
        BY <1>4, <2>3, <4>1 DEF Lag
      <4> QED
        BY <1>2, <1>4, <2>3, <4>1, <4>2
    <3> QED
      BY <1>7, <3>1, <3>2, <3>3
  <2>5. Lag \in Int /\ Lag >= 0 /\ Lag' \in Int /\ Lag' >= 0 /\ cursor'.end \in Int /\ kf' \in Int
    <3>1. cursor'.end \in Int /\ kf' \in Int
      BY <2>4, Numbers
    <3> QED
      BY <2>1, <2>4, <3>1 DEF Lag
  <2>6. CursorInv'
    BY <1>1, <1>2, <2>4 DEF CursorInv
  <2>7. PredInv'
    <3>1. CASE pred' = pred /\ Lag' = Lag
      BY <1>1, <2>0, <3>1 DEF TimeInv, PredInv
    <3>2. CASE pred' = Rearmed(kf', cursor')
      <4>0. PredType(pred)
        BY DEF IInv, Types
      <4>1. CASE onCallback
        <5>1. pred' = [pred EXCEPT !.armed = TRUE, !.at = kf', !.head = cursor'.imu,
                                   !.from = cursor'.end]
          BY <3>2, <4>1 DEF Rearmed
        <5>2. pred' = [armed |-> TRUE, at |-> kf', head |-> cursor'.imu,
                       from |-> cursor'.end, sent |-> pred.sent]
          BY <4>0, <5>1 DEF PredType
        <5>3. pred'.armed = TRUE /\ pred'.at = kf' /\ pred'.from = cursor'.end
          BY <5>2
        <5>4. pred'.from - pred'.at = Lag'
          BY <5>3 DEF Lag
        <5> QED
          BY <1>1, <2>0, <2>4, <2>5, <4>1, <5>3, <5>4 DEF PredInv
      <4>2. CASE ~onCallback
        <5>1. pred' = [pred EXCEPT !.armed = TRUE, !.at = kf']
          BY <3>2, <4>2 DEF Rearmed
        <5>2. pred' = [armed |-> TRUE, at |-> kf', head |-> pred.head, from |-> pred.from,
                       sent |-> pred.sent]
          BY <4>0, <5>1 DEF PredType
        <5>3. pred'.armed = TRUE /\ pred'.at = kf' /\ pred'.head = pred.head
          BY <5>2
        <5>4. pred.head # NoTime => pred.head = lastImu
          <6>1. pred.armed \in BOOLEAN
            BY <4>0 DEF PredType
          <6> QED
            BY <4>2, <6>1 DEF TimeInv, PredInv, Disarmed
        <5>5. kf' <= lastImu
          BY <1>2, <2>4, <2>5
        <5> QED
          BY <1>1, <2>0, <2>4, <4>2, <5>3, <5>4, <5>5 DEF PredInv
      <4> QED
        BY <1>1, <4>1, <4>2
    <3> QED
      BY <2>4, <3>1, <3>2
  <2> QED
    BY <1>3, <2>4, <2>5, <2>6, <2>7 DEF TimeInv
<1> QED
  BY <1>5, <1>6, <1>7 DEF Process, FirstScan, IInv, GapInv

LEMMA TimeKeeps ==
    ASSUME IInv, TimeInv, [Next]_vars
    PROVE  TimeInv'
<1>1. CASE UNCHANGED vars
  BY <1>1 DEF vars, core, buffers, stamps, TimeInv, CursorInv, FrameInv, PredInv, InFrame, Lag
<1>2. ASSUME NEW t \in Stamps, ReceiveScan(t) \/ ReceiveImu(t)
      PROVE  TimeInv'
  BY <1>2, ScanTime, ImuTime
<1>3. CASE TimerFires \/ Synchronize
  BY <1>3, WaitsTime, SkipGapTime, ReleaseTime, PredictTime, PredictionsDoneTime
  DEF Synchronize
<1>4. CASE Process
  BY <1>4, ProcessTime
<1> QED
  BY <1>1, <1>2, <1>3, <1>4 DEF Next

LEMMA TimeInductive == Spec => [](IInv /\ TimeInv)
<1>1. Init => IInv /\ TimeInv
  BY InitIInv, TimeInit
<1>2. (IInv /\ TimeInv) /\ [Next]_vars => (IInv /\ TimeInv)'
  BY NextKeeps, TimeKeeps
<1> QED
  BY <1>1, <1>2, PTL DEF Spec

-----------------------------------------------------------------------------
(* Capacities *)

LEMMA PushLength ==
    ASSUME NEW s \in Seq(Stamps), NEW capacity \in Nat \ {0}, NEW x \in Stamps,
           Len(s) <= capacity
    PROVE  Push(s, capacity, x) \in Seq(Stamps) /\ Len(Push(s, capacity, x)) <= capacity
<1>1. CASE Len(s) = capacity
  <2>1. s # <<>>
    BY <1>1
  <2>2. Tail(s) \in Seq(Stamps) /\ Len(Tail(s)) = Len(s) - 1
    BY <2>1
  <2>3. Push(s, capacity, x) = Append(Tail(s), x)
    BY <1>1 DEF Push
  <2> QED
    BY <1>1, <2>2, <2>3
<1>2. CASE Len(s) # capacity
  <2>1. Push(s, capacity, x) = Append(s, x)
    BY <1>2 DEF Push
  <2> QED
    BY <1>2, <2>1
<1> QED
  BY <1>1, <1>2

LEMMA SplitLength ==
    ASSUME NEW s \in Seq(Stamps), NEW end \in Int
    PROVE  /\ UpTo(s, end) \in Seq(Stamps) /\ Len(UpTo(s, end)) <= Len(s)
           /\ Beyond(s, end) \in Seq(Stamps) /\ Len(Beyond(s, end)) <= Len(s)
<1> DEFINE n == Passed(s, end)
<1>1. s \in Seq(Int)
  BY SyncAssumption DEF Stamps
<1>2. n \in 0 .. Len(s) /\ Len(s) \in Nat
  BY <1>1, PassedFacts
<1> HIDE DEF n
<1>3. SubSeq(s, 1, n) \in Seq(Stamps) /\ Len(SubSeq(s, 1, n)) = n
  BY <1>2
<1>4. SubSeq(s, n + 1, Len(s)) \in Seq(Stamps) /\ Len(SubSeq(s, n + 1, Len(s))) <= Len(s)
  <2>1. n + 1 \in 1 .. Len(s) + 1 /\ Len(s) \in (n + 1) - 1 .. Len(s)
    BY <1>2
  <2>2. /\ SubSeq(s, n + 1, Len(s)) \in Seq(Stamps)
        /\ Len(SubSeq(s, n + 1, Len(s))) = Len(s) - (n + 1) + 1
    BY <2>1, SubSeqProperties
  <2> QED
    BY <1>2, <2>2
<1> QED
  BY <1>2, <1>3, <1>4 DEF UpTo, Beyond, n

(***************************************************************************)
(* The longest step of a frame is within the range of the stamps.          *)
(***************************************************************************)
LEMMA LongestStepType ==
    ASSUME IInv, TimeInv, phase = "process", initialized
    PROVE  LongestStep \in 0 .. MaxTime
<1> DEFINE path == <<cursor.imu>> \o frame.imu
           n == Len(frame.imu)
           S == {FrameSteps[i] : i \in DOMAIN FrameSteps} \cup {TailStep}
<1>1. /\ InFrame /\ frame.imu \in Seq(Stamps) /\ frame.imu # <<>>
      /\ frame.end \in Stamps /\ Last(frame.imu) \in Stamps /\ Last(frame.imu) <= frame.end
      /\ cursor.imu \in Stamps /\ cursor.end \in Stamps
  BY FrameFacts, PropagationFacts DEF TimeInv, CursorInv
<1>2. /\ frame.end \in Int /\ Last(frame.imu) \in Int /\ cursor.end \in Int
      /\ \A x \in Stamps : x \in Int /\ 1 <= x /\ x <= MaxTime
      /\ MaxTime \in Nat
  BY <1>1, Numbers, SyncAssumption DEF Stamps
<1>3. \A i \in 1 .. n + 1 : path[i] \in Stamps
  <2>1. path \in Seq(Stamps) /\ Len(path) = n + 1
    BY <1>1
  <2> QED
    BY <2>1
<1> HIDE DEF path
<1>4. n \in Nat
  BY <1>1
<1>5. FrameSteps = [i \in {j \in 1 .. n : path[j + 1] >= cursor.end}
                      |-> path[i + 1] - StepStart(path[i])]
  BY DEF FrameSteps, path
<1>6. ASSUME NEW i \in DOMAIN FrameSteps
      PROVE  FrameSteps[i] \in Int /\ FrameSteps[i] <= MaxTime
  <2>1. i \in 1 .. n /\ FrameSteps[i] = path[i + 1] - StepStart(path[i])
    BY <1>5
  <2>2. i \in 1 .. n + 1 /\ i + 1 \in 1 .. n + 1
    BY <1>4, <2>1
  <2>3. /\ path[i] \in Int /\ path[i + 1] \in Int /\ path[i + 1] <= MaxTime
        /\ 1 <= cursor.end
    BY <1>1, <1>2, <1>3, <2>2
  <2>4. StepStart(path[i]) \in Int /\ cursor.end <= StepStart(path[i])
    BY <1>2, <2>3, MaxOfTwo DEF StepStart
  <2> QED
    BY <1>2, <2>1, <2>3, <2>4
<1>7. TailStep \in Int /\ TailStep >= 0 /\ TailStep <= MaxTime
  <2>1. 1 <= Last(frame.imu) /\ frame.end <= MaxTime
    BY <1>1, <1>2
  <2> QED
    BY <1>1, <1>2, <2>1 DEF TailStep
<1>8. S \in SUBSET Int /\ S # {} /\ TailStep \in S /\ \A x \in S : x <= MaxTime
  BY <1>6, <1>7
<1>9. LongestStep = Max(S)
  BY DEF LongestStep
<1> HIDE DEF S
<1>10. Max(S) \in S /\ \A y \in S : y <= Max(S)
  <2>1. MaxTime \in Int
    BY <1>2
  <2> QED
    BY <1>8, <2>1, MaxIsGreatest
<1>11. Max(S) \in Int /\ Max(S) <= MaxTime /\ TailStep <= Max(S)
  BY <1>8, <1>10
<1> QED
  BY <1>2, <1>7, <1>9, <1>11

(***************************************************************************)
(* What no part of the invariants above says of the types.                 *)
(***************************************************************************)
CapacityInv ==
    /\ mapBuilt \in BOOLEAN
    /\ lidarBuffer \in Seq(Stamps) /\ Len(lidarBuffer) <= LidarCapacity
    /\ Len(imuBuffer) <= ImuCapacity /\ Len(predBuffer) <= ImuCapacity
    /\ lastLidar \in Times /\ kf \in Times
    /\ step \in 0 .. MaxTime
    /\ resets <= MaxResets
    /\ frame.imu \in Seq(Stamps) /\ Len(frame.imu) <= ImuCapacity
    /\ frame.end \in Times

LEMMA CapacityInit == Init => CapacityInv
<1> SUFFICES ASSUME Init PROVE CapacityInv
  OBVIOUS
<1>1. /\ Len(<<>>) = 0 /\ 0 \in 0 .. MaxTime /\ 0 <= LidarCapacity /\ 0 <= ImuCapacity
      /\ 0 <= MaxResets
  BY SyncAssumption
<1> QED
  BY <1>1, Numbers DEF Init, CapacityInv, NoFrame

LEMMA ReceiveCapacity ==
    ASSUME IInv, CapacityInv, NEW t \in Stamps, ReceiveScan(t) \/ ReceiveImu(t)
    PROVE  CapacityInv'
<1>0. /\ ImuCapacity \in Nat \ {0} /\ LidarCapacity \in Nat \ {0} /\ MaxResets \in Nat
      /\ 0 \in 0 .. MaxTime /\ resets \in Nat
      /\ imuBuffer \in Seq(Stamps) /\ predBuffer \in Seq(Stamps) /\ onCallback \in BOOLEAN
      /\ t \in Times
  BY SyncAssumption, Numbers DEF IInv, Types
<1>1. /\ <<>> \in Seq(Stamps) /\ Len(<<>>) <= ImuCapacity /\ Len(<<>>) <= LidarCapacity
      /\ <<t>> \in Seq(Stamps) /\ Len(<<t>>) <= ImuCapacity /\ Len(<<t>>) <= LidarCapacity
  <2>1. /\ Len(<<>>) = 0 /\ Len(<<t>>) = 1 /\ <<t>> \in Seq(Stamps)
    OBVIOUS
  <2> QED
    BY <1>0, <2>1, Numbers
<1>2. frame' = frame
  BY DEF ReceiveScan, ReceiveImu
<1>3. CASE ResetCore
  <2>1. /\ resets < MaxResets /\ resets' = resets + 1 /\ step' = 0 /\ mapBuilt' = FALSE
        /\ kf' = NoTime
    BY <1>3 DEF ResetCore
  <2>3. resets' <= MaxResets /\ resets' # resets
    BY <1>0, <2>1
  <2>2. /\ lidarBuffer' \in {<<>>, <<t>>, Push(lidarBuffer, LidarCapacity, t)}
        /\ imuBuffer' \in {<<>>, <<t>>, Push(imuBuffer, ImuCapacity, t), imuBuffer}
        /\ predBuffer' \in {<<>>, <<t>>, Push(predBuffer, ImuCapacity, t), predBuffer}
        /\ lastLidar' \in {lastLidar, t, NoTime}
    <3>1. ~ UNCHANGED core
      BY <2>3 DEF core
    <3>2. CASE ReceiveScan(t)
      <4>1. lidarBuffer' = <<t>> /\ imuBuffer' = <<>> /\ predBuffer' = <<>> /\ lastLidar' = t
        BY <3>1, <3>2 DEF ReceiveScan
      <4> QED
        BY <4>1
    <3>3. CASE ReceiveImu(t)
      <4>1. /\ lidarBuffer' = <<>> /\ imuBuffer' = <<t>> /\ lastLidar' = NoTime
            /\ predBuffer' = IF onCallback THEN <<t>> ELSE <<>>
        BY <3>1, <3>3 DEF ReceiveImu
      <4> QED
        BY <4>1
    <3> QED
      BY <3>2, <3>3
  <2> QED
    BY ZenonT(30), <1>0, <1>1, <1>2, <2>1, <2>2, <2>3, Numbers, PushLength DEF CapacityInv
<1>4. CASE ~ResetCore
  <2>1. UNCHANGED core
    BY <1>4 DEF ReceiveScan, ReceiveImu
  <2>2. /\ lidarBuffer' \in {lidarBuffer, Push(lidarBuffer, LidarCapacity, t)}
        /\ imuBuffer' \in {imuBuffer, Push(imuBuffer, ImuCapacity, t)}
        /\ predBuffer' \in {predBuffer, Push(predBuffer, ImuCapacity, t)}
        /\ lastLidar' \in {lastLidar, t}
    BY <1>4 DEF ReceiveScan, ReceiveImu
  <2> QED
    BY <1>0, <1>2, <2>1, <2>2, PushLength DEF CapacityInv, core
<1> QED
  BY <1>3, <1>4

LEMMA CapacityKeeps ==
    ASSUME IInv, TimeInv, CapacityInv, [Next]_vars
    PROVE  CapacityInv'
<1>0. /\ imuBuffer \in Seq(Stamps) /\ predBuffer \in Seq(Stamps)
      /\ ImuCapacity \in Nat /\ LidarCapacity \in Nat /\ 0 \in 0 .. MaxTime
  BY SyncAssumption DEF IInv, Types
<1>1. CASE UNCHANGED vars
  BY <1>1 DEF vars, core, buffers, stamps, CapacityInv
<1>2. ASSUME NEW t \in Stamps, ReceiveScan(t) \/ ReceiveImu(t)
      PROVE  CapacityInv'
  BY <1>2, ReceiveCapacity
<1>3. CASE TimerFires \/ WaitForInput \/ WaitForImu \/ SkipUncovered \/ PredictionsDone
  BY <1>3 DEF TimerFires, WaitForInput, WaitForImu, SkipUncovered, PredictionsDone,
              CapacityInv, buffers, stamps, core
<1>4. CASE TakeScan
  <2>1. /\ lidarBuffer # <<>> /\ lidarBuffer' = Tail(lidarBuffer)
        /\ UNCHANGED <<imuBuffer, predBuffer, lastLidar, kf, step, mapBuilt, resets, frame>>
    BY <1>4 DEF TakeScan, stamps
  <2>2. lidarBuffer' \in Seq(Stamps) /\ Len(lidarBuffer') <= LidarCapacity
    BY <1>0, <2>1 DEF CapacityInv
  <2> QED
    BY <2>1, <2>2 DEF CapacityInv
<1>5. CASE SkipGap \/ Release
  <2>1. /\ ScanInHand /\ imuBuffer' = Beyond(imuBuffer, pending.end)
        /\ frame' = frame \/ frame' = [imu |-> UpTo(imuBuffer, pending.end),
                                       end |-> pending.end]
        /\ UNCHANGED <<lidarBuffer, predBuffer, lastLidar, kf, step, mapBuilt, resets>>
    BY <1>5 DEF SkipGap, Release, Consume, stamps
  <2>2. pending.end \in Stamps
    BY <2>1 DEF ScanInHand, IInv, Types, Scans
  <2>3. pending.end \in Int /\ pending.end \in Times
    BY <2>2, Numbers
  <2>4. /\ UpTo(imuBuffer, pending.end) \in Seq(Stamps)
        /\ Len(UpTo(imuBuffer, pending.end)) <= Len(imuBuffer)
        /\ Beyond(imuBuffer, pending.end) \in Seq(Stamps)
        /\ Len(Beyond(imuBuffer, pending.end)) <= Len(imuBuffer)
    BY <1>0, <2>3, SplitLength
  <2>5. /\ Len(UpTo(imuBuffer, pending.end)) <= ImuCapacity
        /\ Len(imuBuffer') <= ImuCapacity
    BY <1>0, <2>1, <2>4 DEF CapacityInv
  <2> QED
    BY <2>1, <2>3, <2>4, <2>5 DEF CapacityInv
<1>6. CASE Predict
  <2>1. /\ predBuffer # <<>> /\ predBuffer' = Tail(predBuffer)
        /\ UNCHANGED <<lidarBuffer, imuBuffer, lastLidar, kf, step, mapBuilt, resets, frame>>
    BY <1>6 DEF Predict, PredictionDue, stamps, core
  <2>2. Len(predBuffer') <= ImuCapacity
    BY <1>0, <2>1 DEF CapacityInv
  <2> QED
    BY <2>1, <2>2 DEF CapacityInv
<1>7. CASE Process
  <2>1. /\ phase = "process" /\ frame' = NoFrame
        /\ UNCHANGED <<lidarBuffer, imuBuffer, lastLidar, resets>>
        /\ mapBuilt' \in {mapBuilt, TRUE}
        /\ predBuffer' = predBuffer
             \/ \E c \in {FrameCursor, cursor} : predBuffer' = Beyond(predBuffer, c.end)
        /\ step' \in {step, 0} \/ (initialized /\ step' = LongestStep)
        /\ ~initialized' => kf' = kf
    <3>1. CASE FirstScan
      BY <3>1 DEF FirstScan, FrameDone, buffers, stamps
    <3>2. CASE \E done \in BOOLEAN : Initialize(done)
      <4>1. PICK done \in BOOLEAN : Initialize(done)
        BY <3>2
      <4> QED
        BY <4>1 DEF Initialize, FrameDone, buffers, stamps
    <3>3. CASE NoUpdate \/ Commit \/ Reject \/ RollBack
      <4>1. FrameProcessed
        BY <3>3 DEF NoUpdate, Commit, Reject, RollBack
      <4>2. /\ phase = "process" /\ frame' = NoFrame /\ initialized
            /\ UNCHANGED <<lidarBuffer, imuBuffer, lastLidar, resets, initialized>>
        BY <4>1 DEF FrameProcessed, FrameDone, stamps
      <4>3. mapBuilt' \in {mapBuilt, TRUE} /\ step' \in {0, LongestStep}
        BY <3>3 DEF NoUpdate, Commit, Reject, RollBack, Propagate
      <4>4. /\ predBuffer' = predBuffer
                 \/ \E c \in {FrameCursor, cursor} : predBuffer' = Beyond(predBuffer, c.end)
        BY <3>3 DEF NoUpdate, Commit, Reject, RollBack, Rearm
      <4> QED
        BY <4>2, <4>3, <4>4
    <3> QED
      BY <1>7, <3>1, <3>2, <3>3 DEF Process
  <2>2. kf' \in Times
    <3>1. /\ TimeInv' /\ frame.end \in Stamps
      BY <1>7, <2>1, ProcessTime, FrameFacts
    <3>2. initialized' => kf' \in Stamps
      BY <3>1 DEF TimeInv, CursorInv
    <3>3. ~initialized' => kf' = kf
      BY <2>1
    <3>4. initialized' \in BOOLEAN
      BY <1>7, ProcessKeeps DEF IInv, Types
    <3> QED
      BY <3>2, <3>3, <3>4, Numbers DEF CapacityInv
  <2>3. Len(predBuffer') <= ImuCapacity
    <3>1. \A c \in {FrameCursor, cursor} : c.end \in Int
      <4>1. frame.end \in Int
        BY <2>1, FrameFacts, Numbers
      <4>2. cursor.end \in Int
        BY Numbers DEF IInv, Types
      <4> QED
        BY <4>1, <4>2 DEF FrameCursor
    <3>2. \A c \in {FrameCursor, cursor} :
            /\ Beyond(predBuffer, c.end) \in Seq(Stamps)
            /\ Len(Beyond(predBuffer, c.end)) <= Len(predBuffer)
      BY <1>0, <3>1, SplitLength
    <3>3. Len(predBuffer) \in Nat /\ Len(predBuffer) <= ImuCapacity
      BY <1>0 DEF CapacityInv
    <3>4. \A c \in {FrameCursor, cursor} : Len(Beyond(predBuffer, c.end)) <= ImuCapacity
      BY <1>0, <3>2, <3>3
    <3> QED
      BY <2>1, <3>3, <3>4
  <2>4. step' \in 0 .. MaxTime
    BY <1>0, <2>1, LongestStepType DEF CapacityInv
  <2>5. frame'.imu = <<>> /\ frame'.end = NoTime /\ Len(<<>>) <= ImuCapacity
    <3>1. Len(<<>>) = 0
      OBVIOUS
    <3> QED
      BY <1>0, <2>1, <3>1 DEF NoFrame
  <2> QED
    BY <2>1, <2>2, <2>3, <2>4, <2>5, Numbers DEF CapacityInv
<1> QED
  BY <1>1, <1>2, <1>3, <1>4, <1>5, <1>6, <1>7 DEF Next, Synchronize

-----------------------------------------------------------------------------
(* The theorems *)

(***************************************************************************)
(* input_handler.cpp:130: in replay a frame reaches its correction only    *)
(* after every sample of its interval was predicted from, and before any   *)
(* later one.                                                              *)
(***************************************************************************)
THEOREM CorrectionsFollowPredictions == Spec => []CorrectionAfterItsPredictions
<1>1. IInv => CorrectionAfterItsPredictions
  BY DEF IInv, ReplayInv, CorrectionAfterItsPredictions, InFrame, Above
<1> QED
  BY <1>1, Inductive, PTL

(***************************************************************************)
(* integrateIMU publishes stamps that grow until the reset counter moves,  *)
(* over any corrections, rejections and roll-backs between them.           *)
(***************************************************************************)
THEOREM PredictionsMoveForward == Spec => PredictionsForward
<1> DEFINE Forward == resets' = resets /\ pred'.sent # pred.sent => pred'.sent > pred.sent
<1>1. IInv /\ [Next]_vars => [Forward]_vars
  <2> SUFFICES ASSUME IInv, Next, resets' = resets, pred'.sent # pred.sent
               PROVE  pred'.sent > pred.sent
    BY DEF Forward
  <2>1. CASE Predict
    BY <2>1, PredictKeeps
  <2>2. CASE Process
    BY <2>2, ProcessKeeps
  <2>3. ASSUME NEW s \in Stamps, ReceiveImu(s)
        PROVE  pred'.sent > pred.sent
    <3>1. ~ ResetCore
      BY DEF IInv, Types, ResetCore
    <3>2. pred' = IF ~onCallback /\ pred.armed THEN Integrate(pred, s) ELSE pred
      BY <2>3, <3>1 DEF ReceiveImu
    <3>3. ~onCallback /\ pred' = Integrate(pred, s)
      BY <3>2
    <3>4. PredType(pred) /\ pred.from = NoTime /\ pred.sent <= pred.head
      BY <3>3 DEF IInv, Types, LiveInv
    <3>5. pred'.sent = s /\ s > pred.head
      BY <3>3, <3>4, IntegrateFacts
    <3>6. pred.sent \in Int /\ pred.head \in Int /\ s \in Int
      BY <3>4, Numbers DEF PredType
    <3> QED
      BY <3>4, <3>5, <3>6
  <2>4. ASSUME NEW t \in Stamps, ReceiveScan(t)
        PROVE  FALSE
    <3>1. ~ ResetCore
      BY DEF IInv, Types, ResetCore
    <3> QED
      BY <2>4, <3>1 DEF ReceiveScan
  <2>5. CASE TimerFires \/ WaitForInput \/ TakeScan \/ WaitForImu \/ SkipUncovered
             \/ SkipGap \/ Release \/ PredictionsDone
    BY <2>5 DEF TimerFires, WaitForInput, TakeScan, WaitForImu, SkipUncovered, SkipGap,
                Release, PredictionsDone
  <2> QED
    BY <2>1, <2>2, <2>3, <2>4, <2>5 DEF Next, Synchronize
<1> QED
  BY <1>1, Inductive, PTL DEF Spec, PredictionsForward

(***************************************************************************)
(* A frame the gap check released takes no step longer than the limit.     *)
(***************************************************************************)
LEMMA LongestStepFacts ==
    ASSUME IInv, phase = "process", initialized, ~restored
    PROVE  LongestStep <= MaxGap
<1> DEFINE path == <<cursor.imu>> \o frame.imu
           n == Len(frame.imu)
           S == {FrameSteps[i] : i \in DOMAIN FrameSteps} \cup {TailStep}
<1>1. /\ InFrame /\ frame.imu \in Seq(Stamps) /\ frame.imu # <<>>
      /\ frame.end \in Stamps /\ Last(frame.imu) \in Stamps
  BY FrameFacts
<1>2. cursor.imu \in Times /\ cursor.end \in Times
  BY DEF IInv, Types
<1>3. /\ \A i \in 1 .. n - 1 : frame.imu[i + 1] - frame.imu[i] <= MaxGap
      /\ frame.end - Last(frame.imu) <= MaxGap
      /\ frame.imu[1] - cursor.imu <= MaxGap
  BY <1>1 DEF IInv, GapInv
<1>4. /\ n \in Nat \ {0} /\ path[1] = cursor.imu
      /\ \A i \in 1 .. n : path[i + 1] = frame.imu[i] /\ frame.imu[i] \in Stamps
  BY <1>1
<1> HIDE DEF path
<1>5. ASSUME NEW i \in 1 .. n
      PROVE  path[i] \in Int /\ path[i + 1] \in Int /\ path[i + 1] - path[i] <= MaxGap
  <2>1. CASE i = 1
    <3>1. path[i] = cursor.imu /\ path[i + 1] = frame.imu[1] /\ frame.imu[1] \in Stamps
      BY <1>4, <2>1
    <3>2. cursor.imu \in Int /\ frame.imu[1] \in Int
      BY <1>2, <3>1, Numbers
    <3> QED
      BY <1>3, <3>1, <3>2
  <2>2. CASE i # 1
    <3>1. i - 1 \in 1 .. n - 1 /\ i - 1 \in 1 .. n /\ (i - 1) + 1 = i /\ i \in 1 .. n
      BY <1>4, <2>2
    <3>2. path[(i - 1) + 1] = frame.imu[i - 1] /\ frame.imu[i - 1] \in Stamps
      BY <1>4, <3>1
    <3>3. path[i + 1] = frame.imu[i] /\ frame.imu[i] \in Stamps
      BY <1>4
    <3>4. frame.imu[(i - 1) + 1] - frame.imu[i - 1] <= MaxGap
      BY <1>3, <3>1
    <3>5. frame.imu[i - 1] \in Int /\ frame.imu[i] \in Int
      BY <3>2, <3>3, Numbers
    <3> QED
      BY <3>1, <3>2, <3>3, <3>4, <3>5
  <2> QED
    BY <2>1, <2>2
<1>6. FrameSteps = [i \in {j \in 1 .. n : path[j + 1] >= cursor.end}
                      |-> path[i + 1] - StepStart(path[i])]
  BY DEF FrameSteps, path
<1>7. ASSUME NEW i \in DOMAIN FrameSteps
      PROVE  FrameSteps[i] \in Int /\ FrameSteps[i] <= MaxGap
  <2>1. i \in 1 .. n /\ FrameSteps[i] = path[i + 1] - StepStart(path[i])
    BY <1>6
  <2>2. path[i] \in Int /\ path[i + 1] \in Int /\ path[i + 1] - path[i] <= MaxGap
    BY <1>5, <2>1
  <2>3. StepStart(path[i]) \in Int /\ path[i] <= StepStart(path[i])
    <3>1. cursor.end \in Int
      BY <1>2, Numbers
    <3> QED
      BY <2>2, <3>1, MaxOfTwo DEF StepStart
  <2>4. MaxGap \in Int
    BY SyncAssumption
  <2> QED
    BY <2>1, <2>2, <2>3, <2>4
<1>8. TailStep \in Int /\ TailStep <= MaxGap
  <2>1. frame.end \in Int /\ Last(frame.imu) \in Int
    BY <1>1, Numbers
  <2> QED
    BY <1>3, <2>1 DEF TailStep
<1>9. S \in SUBSET Int /\ S # {} /\ \A x \in S : x <= MaxGap
  BY <1>7, <1>8
<1>10. LongestStep = Max(S)
  BY DEF LongestStep
<1> HIDE DEF S
<1>11. MaxGap \in Int
  BY SyncAssumption
<1>12. Max(S) \in S
  BY <1>9, <1>11, MaxIsGreatest
<1> QED
  BY <1>9, <1>10, <1>12

(***************************************************************************)
(* The gap check measures from last_consumed_imu_time_ and undistortPoint- *)
(* Cloud starts at ImuProcessor::last_imu_: but for a frame after a        *)
(* roll-back the check guards every step all the same.                     *)
(***************************************************************************)
THEOREM StepsStayWithinGap == Spec => StepWithinGapUnlessRolledBack
<1> DEFINE Within == phase = "process" /\ initialized /\ ~restored => step' <= MaxGap
<1>1. IInv /\ [Next]_vars => [Within]_vars
  <2> SUFFICES ASSUME IInv, Next, phase = "process", initialized, ~restored
               PROVE  step' <= MaxGap
    BY DEF Within
  <2>1. LongestStep <= MaxGap
    BY LongestStepFacts
  <2>2. started
    BY DEF IInv, GapInv
  <2>3. NoUpdate \/ Commit \/ Reject \/ RollBack
    BY <2>2 DEF Next, Synchronize, Process, ReceiveScan, ReceiveImu, TimerFires,
                WaitForInput, TakeScan, WaitForImu, SkipUncovered, SkipGap, Release,
                Predict, PredictionsDone, ScanInHand, FirstScan, Initialize
  <2>4. step' = LongestStep \/ step' = 0
    BY <2>3 DEF NoUpdate, Commit, Reject, RollBack, Propagate
  <2> QED
    BY <2>1, <2>4, SyncAssumption
<1> QED
  BY <1>1, Inductive, PTL DEF Spec, StepWithinGapUnlessRolledBack

(***************************************************************************)
(* undistortPointCloud covers the time from the last scan end to this one  *)
(* exactly once: what a frame adds to the state, a sum over its samples,   *)
(* is what it adds to the cursor, however the samples lie, and whatever    *)
(* was skipped, rejected or rolled back before.                            *)
(***************************************************************************)
THEOREM PropagationCoversOnce == Spec => PropagationContiguous
<1> DEFINE Contiguous == initialized /\ initialized' /\ kf' # kf => Lag' \in {Lag, 0} /\ Lag' >= 0
<1>1. (IInv /\ TimeInv) /\ [Next]_vars => [Contiguous]_vars
  <2> SUFFICES ASSUME IInv, TimeInv, Next, initialized, initialized', kf' # kf
               PROVE  Lag' \in {Lag, 0} /\ Lag' >= 0
    BY DEF Contiguous
  <2>1. Process
    BY DEF Next, Synchronize, ReceiveScan, ReceiveImu, ResetCore, TimerFires, WaitForInput,
           TakeScan, WaitForImu, SkipUncovered, SkipGap, Release, Predict, PredictionsDone,
           core
  <2> QED
    BY <2>1, ProcessTime
<1> QED
  BY <1>1, TimeInductive, PTL DEF Spec, PropagationContiguous

(***************************************************************************)
(* resetImuPrediction and integrateIMU: in replay imu_prediction_state_-   *)
(* time_ is the time the prediction stands for, up to the lag of the       *)
(* filter, over every correction, rejection, roll-back and skipped frame.  *)
(***************************************************************************)
THEOREM PredictionsAreCurrent == Spec => []PredictionCurrent
<1>1. IInv /\ TimeInv => PredictionCurrent
  BY DEF TimeInv, PredInv, PredictionCurrent
<1> QED
  BY <1>1, TimeInductive, PTL

(***************************************************************************)
(* The buffers of input_handler.cpp never exceed their capacity, and every *)
(* instant the filter, its cursor or its prediction stands for is one of   *)
(* the range of the stamps: nothing is propagated out of it.               *)
(***************************************************************************)
THEOREM TypeCorrect == Spec => []TypeOK
<1>1. Init => IInv /\ TimeInv /\ CapacityInv
  BY InitIInv, TimeInit, CapacityInit
<1>2. (IInv /\ TimeInv /\ CapacityInv) /\ [Next]_vars => (IInv /\ TimeInv /\ CapacityInv)'
  BY NextKeeps, TimeKeeps, CapacityKeeps
<1>3. IInv /\ TimeInv /\ CapacityInv => TypeOK
  <2> SUFFICES ASSUME IInv, TimeInv, CapacityInv PROVE TypeOK
    OBVIOUS
  <2>1. /\ PredType(pred) /\ pred.at \in Times
    BY Numbers DEF IInv, Types, PredType, TimeInv, PredInv, Disarmed
  <2>2. pred \in [armed : BOOLEAN, at : Times, head : Times, from : Times, sent : Times]
    BY <2>1 DEF PredType
  <2>3. resets \in 0 .. MaxResets
    BY SyncAssumption DEF IInv, Types, CapacityInv
  <2> QED
    BY <2>2, <2>3 DEF IInv, Types, CapacityInv, TypeOK
<1> QED
  BY <1>1, <1>2, <1>3, PTL DEF Spec
=============
