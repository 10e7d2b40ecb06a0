--------------------------- MODULE EventLogProofs ----------------------------
(***************************************************************************)
(* The event log for any number of records, any capacity and any number of  *)
(* disk faults: every file holds its records in the order the channel took  *)
(* them, with a working disk every record taken is in one place and a       *)
(* shutdown writes what the channel held, and a flush that returns true has *)
(* waited for everything counted before it.                                 *)
(***************************************************************************)
EXTENDS EventLog, FiniteSetTheorems, SequenceTheorems, TLAPS

\* Where the channel took a record, and how many it has handed on: the reader
\* is done with all of them, except for the one it is writing.
Pos(hist, r) == CHOOSE i \in DOMAIN hist : hist[i] = r
Read    == Len(history) - Len(queue)
Settled == IF reader = "writing" THEN Read - 1 ELSE Read
With(states) == {r \in Records : producer[r] \in states}

Types ==
    /\ queue \in Seq(Records) /\ history \in Seq(Records) /\ buffer \in Seq(Records)
    /\ disk \in [Hours -> Seq(Records)] /\ errors \subseteq Records
    /\ producer \in [Records -> {"new", "queued", "counted", "dropped"}]
    /\ enqueued \in Nat /\ processed \in Nat /\ pending \in Nat /\ target \in Nat /\ diskFaults \in Nat
    /\ reader \in {"start", "degraded", "idle", "waiting", "reading", "writing",
                   "flushing", "counting", "draining", "stopped", "failed"}
    /\ hand \in Records \cup {NoRecord} /\ file \in Hours \cup {NoFile}
    /\ flush \in {"idle", "waiting", "returned"}
    /\ full \in BOOLEAN /\ stopping \in BOOLEAN /\ crashed \in BOOLEAN

\* The channel: history lists once each the records taken, its end is the queue.
Channel ==
    /\ \A i, j \in DOMAIN history : history[i] = history[j] => i = j
    /\ ToSet(history) = With({"queued", "counted"})
    /\ Len(queue) <= Capacity /\ Len(queue) <= Len(history)
    /\ \A i \in 1 .. Len(queue) : queue[i] = history[Read + i]
    /\ reader = "writing" => Read >= 1 /\ hand = history[Read]

\* The counters count what has been taken and what has been settled.
Counters ==
    /\ Len(history) = Cardinality(With({"queued", "counted"}))
    /\ enqueued = Cardinality(With({"counted"}))
    /\ target <= enqueued
    /\ processed + pending <= Settled

\* The files: s holds records settled by m, in the order they were taken.
Placed(hist, s, m) ==
    /\ \A i \in 1 .. Len(s) : s[i] \in ToSet(hist) /\ Pos(hist, s[i]) <= m
    /\ \A i, j \in 1 .. Len(s) : i < j => Pos(hist, s[i]) < Pos(hist, s[j])
Files ==
    /\ \A h \in Hours : Placed(history, disk[h], Settled)
    /\ file \in Hours => Placed(history, disk[file] \o buffer, Settled)
    /\ file = NoFile => buffer = <<>>
    /\ \A r \in errors : r \in ToSet(history) /\ Pos(history, r) <= Settled
FilePerHour ==
    /\ reader = "draining" => stopping \/ crashed
    /\ ~stopping /\ ~crashed =>
          /\ \A h \in Hours : \A i \in 1 .. Len(disk[h]) : Hour(disk[h][i]) = h
          /\ \A i \in 1 .. Len(buffer) : Hour(buffer[i]) = file

\* With a working disk nothing has failed, and every record is somewhere.
Lines0  == Len(disk[0])
Lines1  == Len(disk[1])
Written == Len(buffer) + Lines0 + Lines1
InHand  == IF reader = "writing" THEN {hand} ELSE {}
Places ==
    /\ Taken = ToSet(queue) \cup InHand \cup ToSet(buffer) \cup ToSet(disk[0])
                 \cup ToSet(disk[1]) \cup errors
    /\ Settled = Written + Cardinality(errors)
Whole ==
    diskFaults = 0 =>
        /\ ~full /\ ~crashed
        /\ reader # "writing" => hand = NoRecord
        /\ reader \notin {"stopped", "failed"} => Places

IInv == Types /\ Channel /\ Counters /\ Files /\ FilePerHour /\ Whole

-----------------------------------------------------------------------------
(* Sequences and positions. *)

LEMMA SetOfAppend == ASSUME NEW S, NEW s \in Seq(S), NEW r \in S
                     PROVE  ToSet(Append(s, r)) = ToSet(s) \cup {r}
<1>1. DOMAIN s = 1 .. Len(s) /\ DOMAIN Append(s, r) = 1 .. Len(s) + 1
  OBVIOUS
<1>2. Append(s, r)[Len(s) + 1] = r /\ \A i \in 1 .. Len(s) : Append(s, r)[i] = s[i]
  OBVIOUS
<1> QED BY <1>1, <1>2 DEF ToSet

LEMMA SetOfConcat == ASSUME NEW s \in Seq(Records), NEW t \in Seq(Records)
                     PROVE  ToSet(s \o t) = ToSet(s) \cup ToSet(t)
<1>1. DOMAIN s = 1 .. Len(s) /\ DOMAIN t = 1 .. Len(t) /\ DOMAIN (s \o t) = 1 .. Len(s) + Len(t)
  OBVIOUS
<1>2. \A i \in 1 .. Len(s) : (s \o t)[i] = s[i]
  OBVIOUS
<1>3. \A i \in 1 .. Len(t) : (s \o t)[Len(s) + i] = t[i] /\ Len(s) + i \in 1 .. Len(s) + Len(t)
  OBVIOUS
<1>4. \A i \in 1 .. Len(s) + Len(t) : i \in 1 .. Len(s) \/ (i - Len(s) \in 1 .. Len(t) /\ i = Len(s) + (i - Len(s)))
  OBVIOUS
<1>5. ToSet(s \o t) \subseteq ToSet(s) \cup ToSet(t)
  <2> SUFFICES ASSUME NEW i \in 1 .. Len(s) + Len(t)
               PROVE  (s \o t)[i] \in ToSet(s) \cup ToSet(t)
    BY <1>1 DEF ToSet
  <2>1. CASE i \in 1 .. Len(s)
    BY <1>1, <1>2, <2>1 DEF ToSet
  <2>2. CASE i - Len(s) \in 1 .. Len(t)
    <3> DEFINE k == i - Len(s)
    <3>1. k \in 1 .. Len(t) /\ i = Len(s) + k
      BY <2>2
    <3> HIDE DEF k
    <3> QED BY <1>1, <1>3, <3>1 DEF ToSet
  <2> QED BY <1>4, <2>1, <2>2
<1>6. \A i \in 1 .. Len(s) : i \in 1 .. Len(s) + Len(t)
  OBVIOUS
<1>7. ToSet(s) \subseteq ToSet(s \o t) /\ ToSet(t) \subseteq ToSet(s \o t)
  BY <1>1, <1>2, <1>3, <1>6 DEF ToSet
<1> QED BY <1>5, <1>7

LEMMA SetOfTail == ASSUME NEW S, NEW s \in Seq(S), s # <<>>
                   PROVE  ToSet(s) = {Head(s)} \cup ToSet(Tail(s))
<1>1. /\ Len(s) \in Nat \ {0} /\ DOMAIN s = 1 .. Len(s) /\ DOMAIN Tail(s) = 1 .. Len(s) - 1
      /\ Head(s) = s[1]
  OBVIOUS
<1>2. \A i \in 1 .. Len(s) - 1 : Tail(s)[i] = s[i + 1] /\ i + 1 \in 1 .. Len(s)
  OBVIOUS
<1>3. ToSet(Tail(s)) \subseteq ToSet(s) /\ Head(s) \in ToSet(s)
  BY <1>1, <1>2 DEF ToSet
<1>4. ToSet(s) \subseteq {Head(s)} \cup ToSet(Tail(s))
  <2> SUFFICES ASSUME NEW i \in 1 .. Len(s), i # 1
               PROVE  s[i] \in ToSet(Tail(s))
    BY <1>1 DEF ToSet
  <2> DEFINE k == i - 1
  <2>1. k \in 1 .. Len(s) - 1 /\ k + 1 = i
    OBVIOUS
  <2>2. DOMAIN Tail(s) = 1 .. Len(s) - 1 /\ Tail(s)[k] = s[i]
    BY <1>1, <1>2, <2>1
  <2> HIDE DEF k
  <2> QED BY <2>1, <2>2 DEF ToSet
<1> QED BY <1>3, <1>4

LEMMA ConcatAppend == ASSUME NEW s \in Seq(Records), NEW t \in Seq(Records), NEW r \in Records
                      PROVE  Append(s \o t, r) = s \o Append(t, r)
<1> DEFINE left == Append(s \o t, r)
           right == s \o Append(t, r)
<1>1. /\ Len(s) \in Nat /\ Len(t) \in Nat /\ s \o t \in Seq(Records) /\ Len(s \o t) = Len(s) + Len(t)
      /\ Append(t, r) \in Seq(Records) /\ Len(Append(t, r)) = Len(t) + 1
  OBVIOUS
<1>2. left \in Seq(Records) /\ right \in Seq(Records) /\ Len(left) = Len(s) + Len(t) + 1 /\ Len(right) = Len(left)
  BY <1>1
<1>3. ASSUME NEW i \in 1 .. Len(s) + Len(t) + 1 PROVE left[i] = right[i]
  <2>1. CASE i <= Len(s)
    BY <1>1, <2>1
  <2>2. CASE i > Len(s) /\ i <= Len(s) + Len(t)
    BY <1>1, <2>2
  <2>3. CASE i = Len(s) + Len(t) + 1
    BY <1>1, <2>3
  <2> QED BY <1>1, <2>1, <2>2, <2>3
<1> HIDE DEF left, right
<1>4. left = right
  BY <1>2, <1>3
<1> QED BY <1>4 DEF left, right

LEMMA EmptyList == ASSUME NEW S PROVE <<>> \in Seq(S)
OBVIOUS

LEMMA SetOfEmpty == ToSet(<<>>) = {}
BY DEF ToSet

LEMMA PosType == ASSUME NEW S, NEW hist \in Seq(S), NEW r \in ToSet(hist)
                 PROVE  Pos(hist, r) \in 1 .. Len(hist) /\ hist[Pos(hist, r)] = r
<1>1. \E i \in DOMAIN hist : hist[i] = r
  BY DEF ToSet
<1> QED BY <1>1 DEF Pos

LEMMA PosOf == ASSUME NEW S, NEW hist \in Seq(S), NEW k \in 1 .. Len(hist),
                      \A i, j \in DOMAIN hist : hist[i] = hist[j] => i = j
               PROVE  hist[k] \in ToSet(hist) /\ Pos(hist, hist[k]) = k
<1>1. hist[k] \in ToSet(hist)
  BY DEF ToSet
<1> QED BY <1>1, PosType

LEMMA PosLonger == ASSUME NEW S, NEW hist \in Seq(S), NEW r \in S, NEW x \in ToSet(hist),
                          r \notin ToSet(hist)
                   PROVE  Pos(Append(hist, r), x) = Pos(hist, x)
<1>1. /\ DOMAIN hist = 1 .. Len(hist) /\ DOMAIN Append(hist, r) = 1 .. Len(hist) + 1
      /\ Append(hist, r)[Len(hist) + 1] = r
      /\ \A i \in 1 .. Len(hist) : Append(hist, r)[i] = hist[i]
  OBVIOUS
<1>2. \A i : (i \in DOMAIN hist /\ hist[i] = x) <=> (i \in DOMAIN Append(hist, r) /\ Append(hist, r)[i] = x)
  BY <1>1
<1> QED BY <1>2 DEF Pos

-----------------------------------------------------------------------------
(* Lists of settled records. *)

LEMMA PlacedPrefix == ASSUME NEW hist, NEW s \in Seq(Records), NEW t \in Seq(Records), NEW m,
                             Placed(hist, s \o t, m)
                      PROVE  Placed(hist, s, m)
<1>1. \A i \in 1 .. Len(s) : i \in 1 .. Len(s \o t) /\ (s \o t)[i] = s[i]
  OBVIOUS
<1> QED BY <1>1 DEF Placed

LEMMA PlacedLater == ASSUME NEW hist \in Seq(Records), NEW s, NEW m \in Int, NEW n \in Int,
                            Placed(hist, s, m), m <= n
                     PROVE  Placed(hist, s, n)
BY PosType DEF Placed

LEMMA PlacedAppend == ASSUME NEW hist \in Seq(Records), NEW s \in Seq(Records), NEW m \in Int,
                             NEW r \in ToSet(hist), Placed(hist, s, m), Pos(hist, r) = m + 1
                      PROVE  Placed(hist, Append(s, r), m + 1)
<1>1. r \in Records
  BY DEF ToSet
<1>2. /\ Len(Append(s, r)) = Len(s) + 1 /\ Append(s, r)[Len(s) + 1] = r
      /\ \A i \in 1 .. Len(s) : Append(s, r)[i] = s[i]
  BY <1>1
<1>3. \A i \in 1 .. Len(s) : s[i] \in ToSet(hist) /\ Pos(hist, s[i]) \in Int /\ Pos(hist, s[i]) <= m
  BY PosType DEF Placed
<1>4. \A i \in 1 .. Len(Append(s, r)) : i \in 1 .. Len(s) \/ i = Len(s) + 1
  BY <1>2
<1>5. \A i \in 1 .. Len(Append(s, r)) :
         Append(s, r)[i] \in ToSet(hist) /\ Pos(hist, Append(s, r)[i]) <= m + 1
  BY <1>2, <1>3, <1>4
<1>6. ASSUME NEW i \in 1 .. Len(Append(s, r)), NEW j \in 1 .. Len(Append(s, r)), i < j
      PROVE  Pos(hist, Append(s, r)[i]) < Pos(hist, Append(s, r)[j])
  <2>1. i \in 1 .. Len(s)
    BY <1>2, <1>6
  <2>2. CASE j \in 1 .. Len(s)
    BY <1>2, <1>6, <2>1, <2>2 DEF Placed
  <2>3. CASE j = Len(s) + 1
    BY <1>2, <1>3, <2>1, <2>3
  <2> QED BY <1>4, <2>2, <2>3
<1> QED BY <1>5, <1>6 DEF Placed

LEMMA PlacedLonger == ASSUME NEW hist \in Seq(Records), NEW r \in Records, NEW s, NEW m,
                             r \notin ToSet(hist), Placed(hist, s, m)
                      PROVE  Placed(Append(hist, r), s, m)
BY PosLonger, SetOfAppend DEF Placed

LEMMA PlacedEmpty == ASSUME NEW hist, NEW m PROVE Placed(hist, <<>>, m)
BY DEF Placed

-----------------------------------------------------------------------------
(* The invariant. *)

LEMMA InitInv == Init => IInv
<1> SUFFICES ASSUME Init PROVE IInv
  OBVIOUS
<1>1. Types
  BY DEF Init, Types, Hours, NoFile
<1>2. ToSet(history) = {} /\ With({"queued", "counted"}) = {} /\ With({"counted"}) = {}
  BY SetOfEmpty DEF Init, With
<1>3. Channel
  <2>1. history = <<>> /\ queue = <<>> /\ reader = "start" /\ Len(queue) = 0 /\ Len(history) = 0
    BY DEF Init
  <2>2. DOMAIN history = {} /\ 1 .. Len(queue) = {}
    BY <2>1
  <2> QED BY <1>2, <2>1, <2>2, CapacityAssumption DEF Channel
<1>4. Counters
  <2>1. Cardinality({}) = 0
    BY FS_EmptySet
  <2> QED BY <1>2, <2>1, SMTT(30) DEF Init, Counters, Settled, Read
<1>5. Files
  BY PlacedEmpty DEF Init, Files, Hours, NoFile, Settled, Read
<1>9. FilePerHour
  BY DEF Init, FilePerHour
<1>6. ToSet(queue) = {} /\ ToSet(buffer) = {} /\ ToSet(disk[0]) = {} /\ ToSet(disk[1]) = {}
  BY SetOfEmpty DEF Init, Hours
<1>7. Places
  BY <1>2, <1>6, FS_EmptySet DEF Init, Places, InHand, Written, Lines0, Lines1, Taken, Settled, Read, Hours
<1>8. Whole
  BY <1>7 DEF Init, Whole
<1> QED BY <1>1, <1>3, <1>4, <1>5, <1>8, <1>9 DEF IInv

\* What a flush leaves in the files: the buffer behind the open one, if any.
LEMMA FlushedFiles ==
    ASSUME Types
    PROVE  /\ Flushed \in [Hours -> Seq(Records)]
           /\ \A h \in Hours : Flushed[h] = IF h = file THEN disk[h] \o buffer ELSE disk[h]
<1>1. \A h \in Hours : disk[h] \o buffer \in Seq(Records)
  BY DEF Types
<1>2. Flushed = [h \in Hours |-> IF h = file THEN disk[h] \o buffer ELSE disk[h]]
  BY DEF Types, Flushed
<1> QED BY <1>1, <1>2 DEF Types

LEMMA TypesKept == IInv /\ [Next]_vars => Types'
<1> SUFFICES ASSUME Types, Channel, [Next]_vars PROVE Types'
  BY DEF IInv
<1>1. ASSUME NEW r \in Records, Put(r) PROVE Types'
  BY <1>1 DEF Types, Put, fileVars, hostVars, flushVars
<1>2. ASSUME NEW r \in Records, Count(r) PROVE Types'
  BY <1>2 DEF Types, Count, fileVars, loopVars, hostVars, flushVars
<1>3. ASSUME NEW r \in Records, Drop(r) PROVE Types'
  BY <1>3 DEF Types, Drop, fileVars, loopVars, hostVars, flushVars
<1>4. CASE Open
  BY <1>4 DEF Types, Open, channelVars, fileVars, hostVars, flushVars
<1>5. CASE Discard
  <2>1. Head(queue) \in Records /\ Tail(queue) \in Seq(Records)
    BY <1>5 DEF Discard, Types
  <2> QED BY <1>5, <2>1 DEF Types, Discard, hostVars, flushVars
<1>6. CASE DegradedStop
  BY <1>6 DEF Types, DegradedStop, channelVars, fileVars, hostVars, flushVars
<1>7. CASE Wait
  BY <1>7 DEF Types, Wait, channelVars, fileVars, hostVars, flushVars
<1>8. CASE Take
  <2>1. Head(queue) \in Records /\ Tail(queue) \in Seq(Records)
    BY <1>8 DEF Take, Types
  <2> QED BY <1>8, <2>1 DEF Types, Take, fileVars, hostVars, flushVars
<1>9. CASE BatchEnds
  BY <1>9 DEF Types, BatchEnds, channelVars, fileVars, hostVars, flushVars
<1>10. CASE Rotate
  <2>1. Flushed \in [Hours -> Seq(Records)] /\ Hour(hand) \in Hours
    BY FlushedFiles DEF Hour, Hours
  <2> QED BY <1>10, <2>1 DEF Types, Rotate, channelVars, loopVars, hostVars, flushVars
<1>11. CASE RotateFails
  BY <1>11 DEF Types, RotateFails, channelVars, hostVars, flushVars
<1>12. CASE WriteLine
  <2>1. hand \in Records /\ file \in Hours
    BY <1>12 DEF WriteLine, Channel, Types, Read, Hour, Hours
  <2>2. disk[file] \o buffer \in Seq(Records)
    BY <2>1 DEF Types
  <2>3. Append(buffer, hand) \in Seq(Records) /\ Append(disk[file] \o buffer, hand) \in Seq(Records)
    BY <2>1, <2>2 DEF Types
  <2>4. buffer' \in Seq(Records) /\ disk' \in [Hours -> Seq(Records)]
    <3>1. CASE buffer' = Append(buffer, hand) /\ disk' = disk
      BY <2>3, <3>1 DEF Types
    <3>2. CASE buffer' = <<>> /\ disk' = [disk EXCEPT ![file] = Append(@ \o buffer, hand)]
      BY <2>1, <2>3, <3>2, EmptyList DEF Types
    <3> QED BY <1>12, <3>1, <3>2 DEF WriteLine
  <2> QED BY <1>12, <2>1, <2>4 DEF Types, WriteLine, channelVars, hostVars, flushVars
<1>13. CASE WriteFails
  <2>1. hand \in Records
    BY <1>13 DEF WriteFails, Channel, Types, Read
  <2>2. buffer' \in Seq(Records) /\ errors' \subseteq Records
    BY <1>13, <2>1, EmptyList DEF Types, WriteFails
  <2> QED BY <1>13, <2>1, <2>2 DEF Types, WriteFails, channelVars, hostVars, flushVars
<1>14. CASE Flush
  BY <1>14, FlushedFiles DEF Types, Flush, channelVars, hostVars, flushVars
<1>15. CASE FlushCancelled
  BY <1>15 DEF Types, FlushCancelled, channelVars, fileVars, hostVars, flushVars
<1>16. CASE FlushFails
  <2>1. buffer' \in Seq(Records)
    BY <1>16, EmptyList DEF Types, FlushFails
  <2> QED BY <1>16, <2>1 DEF Types, FlushFails, channelVars, hostVars, flushVars
<1>17. CASE Account
  BY <1>17 DEF Types, Account, channelVars, fileVars, hostVars, flushVars
<1>18. CASE Drain
  <2>1. Head(queue) \in Records /\ file \in Hours /\ Tail(queue) \in Seq(Records)
    BY <1>18 DEF Drain, Types
  <2>2. disk[file] \o buffer \in Seq(Records)
    BY <2>1 DEF Types
  <2>3. /\ Append(buffer, Head(queue)) \in Seq(Records)
        /\ Append(disk[file] \o buffer, Head(queue)) \in Seq(Records)
    BY <2>1, <2>2 DEF Types
  <2>4. buffer' \in Seq(Records) /\ disk' \in [Hours -> Seq(Records)]
    <3>1. CASE buffer' = Append(buffer, Head(queue)) /\ disk' = disk
      BY <2>3, <3>1 DEF Types
    <3>2. CASE buffer' = <<>> /\ disk' = [disk EXCEPT ![file] = Append(@ \o buffer, Head(queue))]
      BY <2>1, <2>3, <3>2, EmptyList DEF Types
    <3> QED BY <1>18, <3>1, <3>2 DEF Drain
  <2> QED BY <1>18, <2>1, <2>4 DEF Types, Drain, loopVars, hostVars, flushVars
<1>19. CASE DrainEnds
  BY <1>19, FlushedFiles DEF Types, DrainEnds, Ended, channelVars, hostVars, flushVars
<1>20. CASE DrainWithoutWriter
  BY <1>20 DEF Types, DrainWithoutWriter, Ended, fileVars, hostVars, flushVars
<1>21. CASE DrainFails
  BY <1>21 DEF Types, DrainFails, hostVars, flushVars
<1>22. CASE FlushAsync
  BY <1>22 DEF Types, FlushAsync, channelVars, fileVars, loopVars, hostVars
<1>23. CASE FlushReturns
  BY <1>23 DEF Types, FlushReturns, channelVars, fileVars, loopVars, hostVars
<1>24. CASE FlushTimesOut
  BY <1>24 DEF Types, FlushTimesOut, channelVars, fileVars, loopVars, hostVars
<1>25. CASE Stop
  BY <1>25 DEF Types, Stop, channelVars, fileVars, flushVars
<1>26. CASE FillUp
  BY <1>26 DEF Types, FillUp, channelVars, fileVars, loopVars, flushVars
<1>27. CASE FreeUp
  BY <1>27 DEF Types, FreeUp, channelVars, fileVars, loopVars, flushVars
<1>28. CASE UNCHANGED vars
  BY <1>28 DEF Types, vars, channelVars, fileVars, loopVars, hostVars, flushVars
<1> QED BY <1>1, <1>2, <1>3, <1>4, <1>5, <1>6, <1>7, <1>8, <1>9, <1>10, <1>11, <1>12, <1>13, <1>14, <1>15, <1>16, <1>17, <1>18, <1>19, <1>20, <1>21, <1>22, <1>23, <1>24, <1>25, <1>26, <1>27, <1>28 DEF Next, Loop
\* The steps that move no record between the channel and the reader.
Still == UNCHANGED <<queue, history, hand>> /\ (reader' = "writing" <=> reader = "writing")
StillStep ==
    \/ Open \/ DegradedStop \/ Wait \/ BatchEnds \/ Rotate \/ Flush \/ FlushCancelled
    \/ FlushFails \/ Account \/ DrainEnds
    \/ FlushAsync \/ FlushReturns \/ FlushTimesOut \/ Stop \/ FillUp \/ FreeUp
    \/ UNCHANGED vars

LEMMA StandStill == ASSUME StillStep PROVE Still /\ producer' = producer
<1>1. CASE Open \/ DegradedStop \/ Wait \/ BatchEnds \/ FlushCancelled
  BY <1>1 DEF Still, Open, DegradedStop, Wait, BatchEnds, FlushCancelled, channelVars
<1>2. CASE Rotate \/ Flush \/ FlushFails \/ Account
  BY <1>2 DEF Still, Rotate, Flush, FlushFails, Account, channelVars, loopVars
<1>3. CASE DrainEnds
  BY <1>3 DEF Still, DrainEnds, Ended, channelVars
<1>4. CASE FlushAsync \/ FlushReturns \/ FlushTimesOut
  BY <1>4 DEF Still, FlushAsync, FlushReturns, FlushTimesOut, channelVars, loopVars
<1>5. CASE Stop \/ FillUp \/ FreeUp
  BY <1>5 DEF Still, Stop, FillUp, FreeUp, channelVars, loopVars
<1>6. CASE UNCHANGED vars
  BY <1>6 DEF Still, vars, channelVars, loopVars
<1> QED BY <1>1, <1>2, <1>3, <1>4, <1>5, <1>6 DEF StillStep

\* Any step is one of these, or a step of a producer, of the reader or of the drain.
LEMMA Steps ==
    ASSUME [Next]_vars
    PROVE  \/ \E r \in Records : Put(r) \/ Count(r) \/ Drop(r)
           \/ Discard \/ Take \/ Drain \/ DrainWithoutWriter \/ DrainFails
           \/ RotateFails \/ WriteLine \/ WriteFails
           \/ StillStep
BY DEF Next, Loop, StillStep

\* The reader, or the drain, takes the next record.
LEMMA NextRecord ==
    ASSUME Types, Channel, queue # <<>>, queue' = Tail(queue), history' = history
    PROVE  /\ Read \in Nat /\ Read + 1 \in 1 .. Len(history) /\ Head(queue) = history[Read + 1]
           /\ Read' = Read + 1 /\ Len(queue') = Len(queue) - 1
           /\ Head(queue) \in ToSet(history) /\ Pos(history, Head(queue)) = Read + 1
           /\ \A i \in 1 .. Len(queue)' : queue'[i] = history'[Read' + i]
<1>1. /\ Len(queue) \in Nat \ {0} /\ Len(history) \in Nat /\ Head(queue) = queue[1]
      /\ Len(queue') = Len(queue) - 1 /\ \A i \in 1 .. Len(queue) - 1 : queue'[i] = queue[i + 1]
  BY DEF Types
<1>2. /\ Len(queue) <= Len(history)
      /\ \A i \in 1 .. Len(queue) : queue[i] = history[Len(history) - Len(queue) + i]
  BY DEF Channel, Read
<1>3. Read \in Nat /\ Read + 1 \in 1 .. Len(history) /\ Read' = Read + 1
  BY <1>1, <1>2 DEF Read
<1>4. Head(queue) = history[Read + 1]
  BY <1>1, <1>2 DEF Read
<1>5. Head(queue) \in ToSet(history) /\ Pos(history, Head(queue)) = Read + 1
  BY <1>3, <1>4, PosOf DEF Types, Channel
<1>6. ASSUME NEW i \in 1 .. Len(queue') PROVE queue'[i] = history'[Read' + i]
  <2>1. i \in 1 .. Len(queue) - 1 /\ i + 1 \in 1 .. Len(queue)
    BY <1>1
  <2>2. queue'[i] = history[Len(history) - Len(queue) + (i + 1)]
    BY <1>1, <1>2, <2>1
  <2>3. Read' + i = Len(history) - Len(queue) + (i + 1)
    BY <1>1, <1>3, <2>1 DEF Read
  <2> QED BY <2>2, <2>3
<1> QED BY <1>1, <1>3, <1>4, <1>5, <1>6

LEMMA ChannelKept == IInv /\ [Next]_vars => Channel'
<1> SUFFICES ASSUME Types, Channel, [Next]_vars PROVE Channel'
  BY DEF IInv
<1>1. ASSUME NEW r \in Records, Put(r) PROVE Channel'
  <2>1. r \notin ToSet(history)
    BY <1>1 DEF Put, Channel, With
  <2>2. history' = Append(history, r) /\ queue' = Append(queue, r)
    BY <1>1 DEF Put
  <2>3. /\ Len(history') = Len(history) + 1 /\ Len(queue') = Len(queue) + 1
        /\ DOMAIN history' = 1 .. Len(history) + 1 /\ DOMAIN history = 1 .. Len(history)
        /\ history'[Len(history) + 1] = r /\ \A i \in 1 .. Len(history) : history'[i] = history[i]
        /\ queue'[Len(queue) + 1] = r /\ \A i \in 1 .. Len(queue) : queue'[i] = queue[i]
        /\ Len(queue) \in Nat /\ Len(history) \in Nat
    BY <2>2 DEF Types
  <2>4. \A i \in 1 .. Len(history) : history[i] # r
    BY <2>1, <2>3 DEF ToSet
  <2>5. \A i, j \in DOMAIN history' : history'[i] = history'[j] => i = j
    BY <2>3, <2>4 DEF Channel
  <2>6. ToSet(history') = With({"queued", "counted"})'
    <3>1. ToSet(history') = ToSet(history) \cup {r}
      BY <2>2, SetOfAppend DEF Types
    <3>2. With({"queued", "counted"})' = With({"queued", "counted"}) \cup {r}
      BY <1>1 DEF Put, With, Types
    <3> QED BY <3>1, <3>2 DEF Channel
  <2>7. Len(queue') <= Capacity /\ Len(queue') <= Len(history')
    BY <1>1, <2>3, CapacityAssumption DEF Channel, Put
  <2>8. Read' = Read /\ Read \in Nat
    BY <2>3 DEF Read, Channel
  <2>9. ASSUME NEW i \in 1 .. Len(queue') PROVE queue'[i] = history'[Read' + i]
    <3>1. CASE i \in 1 .. Len(queue)
      <4>1. Read + i \in 1 .. Len(history) /\ queue[i] = history[Read + i]
        BY <2>3, <2>8, <3>1 DEF Read, Channel
      <4> QED BY <2>3, <2>8, <3>1, <4>1
    <3>2. CASE i = Len(queue) + 1
      <4>1. Read + i = Len(history) + 1
        BY <2>3, <3>2 DEF Read
      <4> QED BY <2>3, <2>8, <3>2, <4>1
    <3> QED BY <2>3, <3>1, <3>2
  <2>10. reader' = "writing" => Read' >= 1 /\ hand' = history'[Read']
    <3> SUFFICES ASSUME reader' = "writing" PROVE Read' >= 1 /\ hand' = history'[Read']
      OBVIOUS
    <3>1. reader = "writing" /\ hand' = hand
      BY <1>1 DEF Put
    <3>2. Read >= 1 /\ hand = history[Read] /\ Read \in 1 .. Len(history)
      BY <2>3, <3>1 DEF Channel, Read
    <3> QED BY <2>3, <2>8, <3>1, <3>2
  <2> QED BY <2>5, <2>6, <2>7, <2>9, <2>10 DEF Channel
<1>2. ASSUME queue # <<>>, queue' = Tail(queue), UNCHANGED <<history, producer>>,
             reader' = "writing" => hand' = Head(queue)
      PROVE  Channel'
  <2>1. With({"queued", "counted"})' = With({"queued", "counted"})
    BY <1>2 DEF With
  <2>2. Len(queue') <= Capacity /\ Len(queue') <= Len(history')
    BY <1>2, NextRecord, CapacityAssumption DEF Types, Channel
  <2>3. reader' = "writing" => Read' >= 1 /\ hand' = history'[Read']
    BY <1>2, NextRecord
  <2> QED BY <1>2, <2>1, <2>2, <2>3, NextRecord DEF Channel
<1>3. ASSUME UNCHANGED <<queue, history>>, With({"queued", "counted"})' = With({"queued", "counted"}),
             reader' = "writing" => reader = "writing" /\ hand' = hand
      PROVE  Channel'
  <2>1. Read' = Read
    BY <1>3 DEF Read
  <2> QED BY <1>3, <2>1 DEF Channel
<1>4. ASSUME NEW r \in Records, Count(r) \/ Drop(r) PROVE Channel'
  <2>1. With({"queued", "counted"})' = With({"queued", "counted"})
    BY <1>4 DEF Count, Drop, With, Types
  <2>2. UNCHANGED <<queue, history, reader, hand>>
    BY <1>4 DEF Count, Drop, loopVars
  <2> QED BY <1>3, <2>1, <2>2
<1>5. CASE Discard \/ Take
  BY <1>2, <1>5 DEF Discard, Take
<1>6. CASE Drain \/ DrainWithoutWriter
  BY <1>2, <1>6 DEF Drain, DrainWithoutWriter, Ended, loopVars
<1>7. CASE DrainFails
  <2>1. With({"queued", "counted"})' = With({"queued", "counted"})
    BY <1>7 DEF DrainFails, With
  <2> QED BY <1>2, <1>3, <1>7, <2>1 DEF DrainFails
<1>8. CASE RotateFails \/ WriteLine \/ WriteFails
  <2>1. With({"queued", "counted"})' = With({"queued", "counted"})
    BY <1>8 DEF RotateFails, WriteLine, WriteFails, With, channelVars
  <2> QED BY <1>3, <1>8, <2>1 DEF RotateFails, WriteLine, WriteFails, channelVars
<1>9. CASE StillStep
  <2>1. Still /\ With({"queued", "counted"})' = With({"queued", "counted"})
    BY <1>9, StandStill DEF With
  <2> QED BY <1>3, <2>1 DEF Still
<1> QED BY <1>1, <1>4, <1>5, <1>6, <1>7, <1>8, <1>9, Steps
\* How many records are settled after a step.
LEMMA SettledKept == ASSUME Still PROVE Settled' = Settled
BY DEF Still, Settled, Read

LEMMA SettledMore ==
    ASSUME IInv, [Next]_vars
    PROVE  /\ Settled \in Int /\ Settled' \in Int /\ Settled <= Settled' /\ Settled' <= Len(history')
           /\ Len(history) \in Nat /\ Len(history') \in Nat
<1>1. Types' /\ Channel'
  BY TypesKept, ChannelKept
<1>2. /\ Len(history) \in Nat /\ Len(history') \in Nat /\ Len(queue) \in Nat /\ Len(queue') \in Nat
      /\ Len(queue) <= Len(history) /\ Len(queue') <= Len(history')
  BY <1>1 DEF IInv, Types, Channel
<1>3. Settled \in Int /\ Settled' \in Int /\ Settled' <= Len(history')
  BY <1>2 DEF Settled, Read
<1>4. Settled <= Settled'
  <2>1. ASSUME NEW r \in Records, Put(r) PROVE Settled <= Settled'
    <3>1. Len(queue') = Len(queue) + 1 /\ Len(history') = Len(history) + 1
      BY <2>1 DEF Put, IInv, Types
    <3>2. reader' = "writing" <=> reader = "writing"
      BY <2>1 DEF Put
    <3> QED BY <1>2, <3>1, <3>2 DEF Settled, Read
  <2>2. ASSUME NEW r \in Records, Count(r) \/ Drop(r) PROVE Settled <= Settled'
    BY <1>2, <2>2 DEF Count, Drop, loopVars, Settled, Read
  <2>3. CASE Discard \/ Take \/ Drain \/ DrainWithoutWriter \/ (DrainFails /\ queue # <<>>)
    <3>1. queue # <<>> /\ queue' = Tail(queue) /\ history' = history /\ reader # "writing"
      BY <2>3 DEF Discard, Take, Drain, DrainWithoutWriter, DrainFails
    <3> QED BY <3>1, NextRecord DEF IInv, Settled
  <2>4. CASE RotateFails \/ WriteLine \/ WriteFails \/ (DrainFails /\ queue = <<>>)
    <3>1. UNCHANGED <<queue, history>> /\ reader' # "writing"
      BY <2>4 DEF RotateFails, WriteLine, WriteFails, DrainFails, channelVars
    <3> QED BY <1>2, <3>1 DEF Settled, Read
  <2>5. CASE StillStep
    BY <1>3, <2>5, StandStill, SettledKept
  <2> QED BY <2>1, <2>2, <2>3, <2>4, <2>5, Steps
<1> QED BY <1>2, <1>3, <1>4

LEMMA WithFinite == ASSUME NEW states
                    PROVE  IsFiniteSet(With(states)) /\ Cardinality(With(states)) <= Cardinality(Records)
                           /\ Cardinality(With(states)) \in Nat /\ Cardinality(Records) \in Nat
<1>1. With(states) \subseteq Records /\ IsFiniteSet(Records)
  BY RecordsAssumption DEF With
<1> QED BY <1>1, FS_Subset, FS_CardinalityType

LEMMA CountersKept == IInv /\ [Next]_vars => Counters'
<1> SUFFICES ASSUME IInv, [Next]_vars PROVE Counters'
  OBVIOUS
<1>1. /\ Settled \in Int /\ Settled' \in Int /\ Settled <= Settled'
      /\ processed \in Nat /\ pending \in Nat /\ processed + pending <= Settled
      /\ enqueued \in Nat /\ target \in Nat /\ target <= enqueued
  BY SettledMore DEF IInv, Types, Counters
<1>2. ASSUME NEW r \in Records, Put(r) PROVE Counters'
  <2>1. With({"queued", "counted"})' = With({"queued", "counted"}) \cup {r}
        /\ With({"counted"})' = With({"counted"}) /\ r \notin With({"queued", "counted"})
    BY <1>2 DEF Put, With, IInv, Types
  <2>2. Cardinality(With({"queued", "counted"})') = Cardinality(With({"queued", "counted"})) + 1
    BY <2>1, WithFinite, FS_AddElement
  <2>3. Len(history') = Len(history) + 1
    BY <1>2 DEF Put, IInv, Types
  <2>4. UNCHANGED <<enqueued, target, processed, pending>>
    BY <1>2 DEF Put, flushVars
  <2> QED BY <1>1, <2>1, <2>2, <2>3, <2>4 DEF Counters, IInv
<1>3. ASSUME NEW r \in Records, Count(r) PROVE Counters'
  <2>1. With({"counted"})' = With({"counted"}) \cup {r} /\ r \notin With({"counted"})
        /\ With({"queued", "counted"})' = With({"queued", "counted"})
    BY <1>3 DEF Count, With, IInv, Types
  <2>2. Cardinality(With({"counted"})') = Cardinality(With({"counted"})) + 1
    BY <2>1, WithFinite, FS_AddElement
  <2>3. enqueued' = enqueued + 1 /\ UNCHANGED <<history, target, processed, pending>>
    BY <1>3 DEF Count, flushVars, loopVars
  <2> QED BY <1>1, <2>1, <2>2, <2>3 DEF Counters, IInv
<1>4. ASSUME UNCHANGED <<history, enqueued, producer>>, target' = target \/ target' = enqueued \/ target' = 0,
             processed' + pending' <= Settled'
      PROVE  Counters'
  <2>1. \A states : With(states)' = With(states)
    BY <1>4 DEF With
  <2> QED BY <1>1, <1>4, <2>1 DEF Counters, IInv
<1>5. ASSUME NEW r \in Records, Drop(r) PROVE Counters'
  <2>1. With({"queued", "counted"})' = With({"queued", "counted"}) /\ With({"counted"})' = With({"counted"})
    BY <1>5 DEF Drop, With, IInv, Types
  <2>2. UNCHANGED <<history, enqueued, target, processed, pending>>
    BY <1>5 DEF Drop, loopVars, flushVars
  <2> QED BY <1>1, <2>1, <2>2 DEF Counters, IInv
<1>6. CASE Discard
  <2>1. queue # <<>> /\ queue' = Tail(queue) /\ reader = "degraded" /\ reader' = reader
        /\ processed' = processed + 1 /\ UNCHANGED <<history, enqueued, producer, target, pending>>
    BY <1>6 DEF Discard, flushVars
  <2>2. Settled' = Settled + 1
    BY <2>1, NextRecord DEF IInv, Settled
  <2> QED BY <1>1, <1>4, <2>1, <2>2
<1>7. CASE Take \/ Drain \/ DrainWithoutWriter \/ DrainFails \/ RotateFails
  <2>1. UNCHANGED <<history, enqueued, producer, target, processed, pending>>
    BY <1>7 DEF Take, Drain, DrainWithoutWriter, DrainFails, RotateFails, flushVars, loopVars, channelVars
  <2> QED BY <1>1, <1>4, <2>1
<1>8. CASE WriteLine \/ WriteFails
  <2>1. reader = "writing" /\ reader' = "reading" /\ pending' = pending + 1
        /\ UNCHANGED <<queue, history, enqueued, producer, target, processed>>
    BY <1>8 DEF WriteLine, WriteFails, flushVars, channelVars
  <2>2. Settled' = Settled + 1
    BY <2>1 DEF IInv, Types, Settled, Read
  <2> QED BY <1>1, <1>4, <2>1, <2>2
<1>9. CASE StillStep
  <2>1. UNCHANGED <<history, enqueued, producer>> /\ target' \in {target, enqueued, 0}
        /\ (UNCHANGED <<processed, pending>> \/ Account)
    BY <1>9 DEF StillStep, Open, DegradedStop, Wait, BatchEnds, Rotate, Flush, FlushCancelled,
       FlushFails, DrainEnds, FlushAsync, FlushReturns, FlushTimesOut, Stop, FillUp, FreeUp, vars,
       Account, channelVars, loopVars, flushVars
  <2>2. processed' + pending' = processed + pending
    BY <1>1, <2>1 DEF Account
  <2> QED BY <1>1, <1>4, <2>1, <2>2
<1> QED BY <1>2, <1>3, <1>5, <1>6, <1>7, <1>8, <1>9, Steps
\* What is in place stays in place.
LEMMA Carried ==
    ASSUME IInv, [Next]_vars
    PROVE  /\ \A s : Placed(history, s, Settled) => Placed(history', s, Settled')
           /\ \A r \in ToSet(history) : Pos(history, r) <= Settled =>
                  r \in ToSet(history') /\ Pos(history', r) <= Settled'
<1>1. Settled \in Int /\ Settled' \in Int /\ Settled <= Settled'
  BY SettledMore
<1>2. history \in Seq(Records)
  BY DEF IInv, Types
<1>3. \A r \in ToSet(history) : Pos(history, r) \in Int
  BY <1>2, PosType
<1>4. ASSUME NEW r \in Records, Put(r)
      PROVE  /\ \A s : Placed(history, s, Settled) => Placed(history', s, Settled')
             /\ \A x \in ToSet(history) : Pos(history, x) <= Settled =>
                    x \in ToSet(history') /\ Pos(history', x) <= Settled'
  <2>1. r \notin ToSet(history) /\ history' = Append(history, r)
    BY <1>4 DEF Put, IInv, Channel, With
  <2>2. ToSet(history') = ToSet(history) \cup {r} /\ \A x \in ToSet(history) : Pos(history', x) = Pos(history, x)
    BY <1>2, <2>1, PosLonger, SetOfAppend
  <2>3. \A s : Placed(history, s, Settled) => Placed(history, s, Settled')
    BY <1>1, <1>2, PlacedLater
  <2>4. \A s : Placed(history, s, Settled') => Placed(history', s, Settled')
    BY <1>2, <2>1, PlacedLonger
  <2> QED BY <1>1, <1>3, <2>2, <2>3, <2>4
<1>5. ASSUME history' = history
      PROVE  /\ \A s : Placed(history, s, Settled) => Placed(history', s, Settled')
             /\ \A x \in ToSet(history) : Pos(history, x) <= Settled =>
                    x \in ToSet(history') /\ Pos(history', x) <= Settled'
  BY <1>1, <1>2, <1>3, <1>5, PlacedLater
<1>6. (\E r \in Records : Put(r)) \/ history' = history
  <2>1. ASSUME NEW r \in Records, Count(r) \/ Drop(r) PROVE history' = history
    BY <2>1 DEF Count, Drop
  <2>2. CASE Discard \/ Take \/ Drain \/ DrainWithoutWriter \/ DrainFails \/ RotateFails \/ WriteLine \/ WriteFails
    BY <2>2 DEF Discard, Take, Drain, DrainWithoutWriter, DrainFails, RotateFails, WriteLine, WriteFails, channelVars
  <2> QED BY <2>1, <2>2, StandStill, Steps DEF Still
<1> QED BY <1>4, <1>5, <1>6

\* The reader writes the record it holds, or the drain the next one.
LEMMA NextWritten ==
    ASSUME IInv, [Next]_vars, NEW r, (WriteLine /\ r = hand) \/ (Drain /\ r = Head(queue))
    PROVE  /\ r \in Records /\ r \in ToSet(history) /\ Pos(history, r) = Settled + 1
           /\ Settled' = Settled + 1 /\ history' = history /\ file \in Hours /\ file' = file /\ errors' = errors
           /\ \/ buffer' = Append(buffer, r) /\ disk' = disk
              \/ buffer' = <<>> /\ disk' = [disk EXCEPT ![file] = Append(@ \o buffer, r)]
<1>1. CASE WriteLine /\ r = hand
  <2>1. reader = "writing" /\ reader' = "reading" /\ UNCHANGED <<queue, history, file, errors>> /\ Hour(r) = file
    BY <1>1 DEF WriteLine, channelVars
  <2>2. Read \in 1 .. Len(history) /\ r = history[Read] /\ Settled = Read - 1 /\ Settled' = Read
    BY <1>1, <2>1 DEF IInv, Channel, Types, Read, Settled
  <2>3. r \in ToSet(history) /\ Pos(history, r) = Read /\ r \in Records
    BY <2>2, PosOf DEF IInv, Types, Channel
  <2> QED BY <1>1, <2>1, <2>2, <2>3 DEF WriteLine, Hour, Hours
<1>2. CASE Drain /\ r = Head(queue)
  <2>1. queue # <<>> /\ queue' = Tail(queue) /\ reader = "draining" /\ reader' = reader
        /\ UNCHANGED <<history, file, errors>> /\ file # NoFile
    BY <1>2 DEF Drain, loopVars
  <2>2. r \in Records /\ file \in Hours
    BY <1>2, <2>1 DEF IInv, Types
  <2> QED BY <1>2, <2>1, <2>2, NextRecord DEF IInv, Settled, Drain
<1> QED BY <1>1, <1>2

LEMMA FilesKept == IInv /\ [Next]_vars => Files'
<1> SUFFICES ASSUME IInv, [Next]_vars PROVE Files'
  OBVIOUS
<1>1. /\ buffer \in Seq(Records) /\ disk \in [Hours -> Seq(Records)] /\ file \in Hours \cup {NoFile}
      /\ Types /\ Files
  BY DEF IInv, Types
<1>2. \A h \in Hours : Placed(history', disk[h], Settled')
  BY <1>1, Carried DEF Files
<1>3. \A r \in errors : r \in ToSet(history') /\ Pos(history', r) <= Settled'
  BY <1>1, Carried DEF Files
<1>4. file \in Hours => Placed(history', disk[file] \o buffer, Settled')
  BY <1>1, Carried DEF Files
<1>5. NoFile \notin Hours
  BY DEF NoFile, Hours
<1>6. ASSUME UNCHANGED <<file, buffer, disk>>,
             errors' = errors \/ \E r \in ToSet(history') : errors' = errors \cup {r} /\ Pos(history', r) <= Settled'
      PROVE  Files'
  BY <1>1, <1>2, <1>3, <1>4, <1>6 DEF Files
<1>7. ASSUME UNCHANGED disk, buffer' = <<>>,
             errors' = errors \/ \E r \in ToSet(history') : errors' = errors \cup {r} /\ Pos(history', r) <= Settled'
      PROVE  Files'
  <2>1. \A h \in Hours : disk'[h] \o buffer' = disk[h]
    BY <1>1, <1>7
  <2>2. file' \in Hours => Placed(history', disk'[file'] \o buffer', Settled')
    BY <1>2, <2>1
  <2> QED BY <1>2, <1>3, <1>7, <2>2 DEF Files
<1>8. ASSUME disk' = Flushed, buffer' = <<>>, errors' = errors
      PROVE  Files'
  <2>1. \A h \in Hours : Placed(history', disk'[h], Settled') /\ disk'[h] \in Seq(Records)
    BY <1>1, <1>2, <1>4, <1>8, FlushedFiles
  <2>2. \A h \in Hours : disk'[h] \o buffer' = disk'[h]
    BY <1>8, <2>1
  <2>3. file' \in Hours => Placed(history', disk'[file'] \o buffer', Settled')
    BY <2>1, <2>2
  <2> QED BY <1>3, <1>8, <2>1, <2>3 DEF Files
<1>9. ASSUME NEW r \in Records, Put(r) \/ Count(r) \/ Drop(r) PROVE Files'
  BY <1>6, <1>9 DEF Put, Count, Drop, fileVars
<1>10. CASE Discard
  <2>1. queue # <<>> /\ queue' = Tail(queue) /\ history' = history /\ reader = "degraded" /\ reader' = reader
        /\ errors' = errors \cup {Head(queue)} /\ UNCHANGED <<file, buffer, disk>>
    BY <1>10 DEF Discard
  <2>2. Head(queue) \in ToSet(history') /\ Pos(history', Head(queue)) = Settled'
    BY <2>1, NextRecord DEF IInv, Settled
  <2>3. Settled' \in Int
    BY SettledMore
  <2> QED BY <1>6, <2>1, <2>2, <2>3
<1>11. CASE Take \/ DrainWithoutWriter
  BY <1>6, <1>11 DEF Take, DrainWithoutWriter, fileVars
<1>12. CASE RotateFails \/ DrainFails
  BY <1>7, <1>12 DEF RotateFails, DrainFails
<1>13. CASE WriteFails
  <2>1. reader = "writing" /\ reader' = "reading" /\ UNCHANGED <<queue, history, file, disk>>
        /\ errors' = errors \cup {hand} /\ buffer' \in {buffer, <<>>}
    BY <1>13 DEF WriteFails, channelVars
  <2>2. Read \in 1 .. Len(history) /\ hand = history[Read] /\ Settled' = Read
    BY <2>1 DEF IInv, Channel, Types, Read, Settled
  <2>3. hand \in ToSet(history') /\ Pos(history', hand) = Settled'
    BY <2>1, <2>2, PosOf DEF IInv, Types, Channel
  <2>4. Settled' \in Int
    BY SettledMore
  <2> QED BY <1>6, <1>7, <2>1, <2>3, <2>4
<1>14. CASE WriteLine \/ Drain
  <2> DEFINE r == IF WriteLine THEN hand ELSE Head(queue)
  <2>1. /\ r \in Records /\ r \in ToSet(history) /\ Pos(history, r) = Settled + 1
        /\ Settled' = Settled + 1 /\ history' = history /\ file \in Hours /\ file' = file /\ errors' = errors
        /\ \/ buffer' = Append(buffer, r) /\ disk' = disk
           \/ buffer' = <<>> /\ disk' = [disk EXCEPT ![file] = Append(@ \o buffer, r)]
    BY <1>14, NextWritten
  <2> HIDE DEF r
  <2>2. disk[file] \o buffer \in Seq(Records) /\ Settled \in Int
    BY <1>1, <2>1, SettledMore
  <2>3. Placed(history', Append(disk[file] \o buffer, r), Settled')
    <3>1. Placed(history, disk[file] \o buffer, Settled)
      BY <1>1, <2>1 DEF Files
    <3> QED BY <1>1, <2>1, <2>2, <3>1, PlacedAppend DEF Types
  <2>4. Append(disk[file] \o buffer, r) = disk[file] \o Append(buffer, r)
        /\ Append(disk[file] \o buffer, r) \o <<>> = Append(disk[file] \o buffer, r)
    <3>1. disk[file] \in Seq(Records) /\ <<r>> \in Seq(Records)
      BY <1>1, <2>1
    <3>2. Append(disk[file] \o buffer, r) \in Seq(Records)
      BY <2>1, <2>2
    <3>3. Append(disk[file] \o buffer, r) = disk[file] \o Append(buffer, r)
      <4>1. disk[file] \in Seq(Records) /\ buffer \in Seq(Records) /\ r \in Records
        BY <1>1, <2>1, <3>1
      <4> QED BY <4>1, ConcatAppend
    <3>4. Append(disk[file] \o buffer, r) \o <<>> = Append(disk[file] \o buffer, r)
      BY <3>2, ConcatEmptySeq
    <3> QED BY <3>3, <3>4
  <2>5. CASE buffer' = Append(buffer, r) /\ disk' = disk
    <3>1. Placed(history', disk'[file'] \o buffer', Settled')
      BY <2>1, <2>3, <2>4, <2>5
    <3> QED BY <1>2, <1>3, <1>5, <2>1, <2>5, <3>1 DEF Files
  <2>6. CASE buffer' = <<>> /\ disk' = [disk EXCEPT ![file] = Append(@ \o buffer, r)]
    <3>1. disk'[file] = Append(disk[file] \o buffer, r) /\ \A h \in Hours \ {file} : disk'[h] = disk[h]
      BY <1>1, <2>1, <2>6
    <3>2. \A h \in Hours : Placed(history', disk'[h], Settled')
      BY <1>2, <2>3, <3>1
    <3>3. Placed(history', disk'[file'] \o buffer', Settled')
      BY <2>1, <2>3, <2>4, <2>6, <3>1
    <3> QED BY <1>3, <2>1, <2>6, <3>2, <3>3 DEF Files
  <2> QED BY <2>1, <2>5, <2>6
<1>15. CASE StillStep
  <2>1. CASE Rotate /\ file # NoFile
    BY <1>8, <2>1 DEF Rotate
  <2>2. CASE Rotate /\ file = NoFile
    BY <1>7, <2>2 DEF Rotate
  <2>3. CASE Flush
    BY <1>8, <2>3 DEF Flush
  <2>4. CASE DrainEnds
    BY <1>7, <1>8, <2>4 DEF DrainEnds
  <2>5. CASE FlushFails
    BY <1>6, <1>7, <2>5 DEF FlushFails
  <2>6. CASE Open \/ DegradedStop \/ Wait \/ BatchEnds \/ FlushCancelled \/ Account
    BY <1>6, <2>6 DEF Open, DegradedStop, Wait, BatchEnds, FlushCancelled, Account, fileVars
  <2>7. CASE FlushAsync \/ FlushReturns \/ FlushTimesOut \/ Stop \/ FillUp \/ FreeUp \/ UNCHANGED vars
    BY <1>6, <2>7 DEF FlushAsync, FlushReturns, FlushTimesOut, Stop, FillUp, FreeUp, vars, fileVars
  <2> QED BY <1>15, <2>1, <2>2, <2>3, <2>4, <2>5, <2>6, <2>7 DEF StillStep
<1> QED BY <1>9, <1>10, <1>11, <1>12, <1>13, <1>14, <1>15, Steps
\* One hour per file, until the log is on its way down.
LEMMA HoursKept == IInv /\ [Next]_vars => FilePerHour'
<1> SUFFICES ASSUME IInv, [Next]_vars PROVE FilePerHour'
  OBVIOUS
<1>1. /\ buffer \in Seq(Records) /\ disk \in [Hours -> Seq(Records)] /\ file \in Hours \cup {NoFile}
      /\ Types /\ FilePerHour /\ stopping \in BOOLEAN /\ crashed \in BOOLEAN
  BY DEF IInv, Types
<1>2. (stopping => stopping') /\ (crashed => crashed')
      /\ (reader' = "draining" => reader = "draining" \/ stopping' \/ crashed')
  <2>1. ASSUME NEW r \in Records, Put(r) \/ Count(r) \/ Drop(r)
        PROVE  UNCHANGED <<stopping, crashed>> /\ (reader' = "draining" => reader = "draining")
    BY <2>1 DEF Put, Count, Drop, hostVars, loopVars
  <2>2. CASE Discard \/ Take \/ Drain \/ DrainWithoutWriter \/ DrainFails
    BY <2>2 DEF Discard, Take, Drain, DrainWithoutWriter, DrainFails, Ended, hostVars, loopVars
  <2>3. CASE RotateFails \/ WriteLine \/ WriteFails
    BY <2>3 DEF RotateFails, WriteLine, WriteFails, hostVars
  <2>4. CASE Open \/ DegradedStop \/ Wait \/ BatchEnds \/ Rotate \/ Flush \/ FlushCancelled
    BY <2>4 DEF Open, DegradedStop, Wait, BatchEnds, Rotate, Flush, FlushCancelled, hostVars, loopVars
  <2>5. CASE FlushFails \/ Account \/ DrainEnds
    BY <2>5 DEF FlushFails, Account, DrainEnds, Ended, hostVars
  <2>6. CASE FlushAsync \/ FlushReturns \/ FlushTimesOut
    <3>1. UNCHANGED <<loopVars, hostVars>>
      BY <2>6 DEF FlushAsync, FlushReturns, FlushTimesOut
    <3> QED BY <3>1 DEF hostVars, loopVars
  <2>7. CASE Stop
    BY <2>7 DEF Stop, loopVars
  <2>8. CASE FillUp \/ FreeUp
    BY <2>8 DEF FillUp, FreeUp, loopVars
  <2>9. CASE UNCHANGED vars
    BY <2>9 DEF vars, hostVars, loopVars
  <2> QED BY <2>1, <2>2, <2>3, <2>4, <2>5, <2>6, <2>7, <2>8, <2>9, Steps DEF StillStep
<1>3. reader' = "draining" => stopping' \/ crashed'
  BY <1>1, <1>2 DEF FilePerHour
<1> SUFFICES ASSUME ~stopping', ~crashed'
             PROVE  /\ \A h \in Hours : \A i \in 1 .. Len(disk'[h]) : Hour(disk'[h][i]) = h
                    /\ \A i \in 1 .. Len(buffer') : Hour(buffer'[i]) = file'
  BY <1>3 DEF FilePerHour, Hour
<1>4. /\ ~stopping /\ ~crashed /\ reader # "draining"
      /\ \A h \in Hours : \A i \in 1 .. Len(disk[h]) : Hour(disk[h][i]) = h
      /\ \A i \in 1 .. Len(buffer) : Hour(buffer[i]) = file
  BY <1>1, <1>2 DEF FilePerHour
<1>5. \A h \in Hours : h = file =>
         \A i \in 1 .. Len(disk[h] \o buffer) : Hour((disk[h] \o buffer)[i]) = h
  <2> SUFFICES ASSUME file \in Hours, NEW i \in 1 .. Len(disk[file] \o buffer)
               PROVE  Hour((disk[file] \o buffer)[i]) = file
    OBVIOUS
  <2>1. disk[file] \in Seq(Records)
    BY <1>1
  <2>2. CASE i <= Len(disk[file])
    BY <1>1, <1>4, <2>1, <2>2
  <2>3. CASE i > Len(disk[file])
    <3>1. i - Len(disk[file]) \in 1 .. Len(buffer)
          /\ (disk[file] \o buffer)[i] = buffer[i - Len(disk[file])]
      BY <1>1, <2>1, <2>3
    <3> QED BY <1>4, <3>1
  <2> QED BY <1>1, <2>1, <2>2, <2>3
<1>6. \A h \in Hours : \A i \in 1 .. Len(Flushed[h]) : Hour(Flushed[h][i]) = h
  BY <1>1, <1>4, <1>5, FlushedFiles
<1>7. ASSUME UNCHANGED disk, UNCHANGED <<file, buffer>> \/ buffer' = <<>>
      PROVE  /\ \A h \in Hours : \A i \in 1 .. Len(disk'[h]) : Hour(disk'[h][i]) = h
             /\ \A i \in 1 .. Len(buffer') : Hour(buffer'[i]) = file'
  BY <1>4, <1>7
<1>8. ASSUME disk' = Flushed, buffer' = <<>>
      PROVE  /\ \A h \in Hours : \A i \in 1 .. Len(disk'[h]) : Hour(disk'[h][i]) = h
             /\ \A i \in 1 .. Len(buffer') : Hour(buffer'[i]) = file'
  BY <1>6, <1>8
<1>9. ASSUME NEW r \in Records, Put(r) \/ Count(r) \/ Drop(r) PROVE UNCHANGED <<disk, file, buffer>>
  BY <1>9 DEF Put, Count, Drop, fileVars
<1>10. CASE Discard \/ Take
  BY <1>7, <1>10 DEF Discard, Take, fileVars
<1>11. CASE Drain \/ DrainWithoutWriter \/ DrainFails \/ RotateFails
  BY <1>4, <1>11 DEF Drain, DrainWithoutWriter, DrainFails, RotateFails
<1>12. CASE WriteFails
  BY <1>7, <1>12 DEF WriteFails
<1>13. CASE WriteLine
  <2>1. /\ hand \in Records /\ file \in Hours /\ file' = file /\ Hour(hand) = file
        /\ \/ buffer' = Append(buffer, hand) /\ disk' = disk
           \/ buffer' = <<>> /\ disk' = [disk EXCEPT ![file] = Append(@ \o buffer, hand)]
    BY <1>13, NextWritten DEF WriteLine
  <2>2. CASE buffer' = Append(buffer, hand) /\ disk' = disk
    BY <1>1, <1>4, <2>1, <2>2
  <2>3. CASE buffer' = <<>> /\ disk' = [disk EXCEPT ![file] = Append(@ \o buffer, hand)]
    <3> DEFINE new == Append(disk[file] \o buffer, hand)
    <3>1. \A i \in 1 .. Len(new) : Hour(new[i]) = file
      <4>1. disk[file] \o buffer \in Seq(Records)
        BY <1>1, <2>1
      <4>2. \A i \in 1 .. Len(disk[file] \o buffer) : new[i] = (disk[file] \o buffer)[i]
        BY <2>1, <4>1
      <4>3. /\ new[Len(disk[file] \o buffer) + 1] = hand
            /\ \A i \in 1 .. Len(new) : i \in 1 .. Len(disk[file] \o buffer) \/ i = Len(disk[file] \o buffer) + 1
        BY <2>1, <4>1
      <4> HIDE DEF new
      <4> QED BY <1>5, <2>1, <4>2, <4>3
    <3>2. disk'[file] = new /\ \A h \in Hours \ {file} : disk'[h] = disk[h]
      BY <1>1, <2>1, <2>3
    <3> HIDE DEF new
    <3> QED BY <1>4, <2>3, <3>1, <3>2
  <2> QED BY <2>1, <2>2, <2>3
<1>14. CASE StillStep
  <2>1. CASE Rotate
    BY <1>7, <1>8, <2>1 DEF Rotate
  <2>2. CASE Flush \/ DrainEnds
    BY <1>7, <1>8, <2>2 DEF Flush, DrainEnds
  <2>3. CASE FlushFails
    BY <1>7, <2>3 DEF FlushFails
  <2>4. CASE Open \/ DegradedStop \/ Wait \/ BatchEnds \/ FlushCancelled \/ Account
    BY <1>7, <2>4 DEF Open, DegradedStop, Wait, BatchEnds, FlushCancelled, Account, fileVars
  <2>5. CASE FlushAsync \/ FlushReturns \/ FlushTimesOut \/ Stop \/ FillUp \/ FreeUp \/ UNCHANGED vars
    BY <1>7, <2>5 DEF FlushAsync, FlushReturns, FlushTimesOut, Stop, FillUp, FreeUp, vars, fileVars
  <2> QED BY <1>14, <2>1, <2>2, <2>3, <2>4, <2>5 DEF StillStep
<1> QED BY <1>7, <1>9, <1>10, <1>11, <1>12, <1>13, <1>14, Steps
\* A line appended to the files moves one record there; a flush moves none.
LEMMA WrittenSizes ==
    ASSUME Types, NEW r \in Records, file \in Hours,
           \/ buffer' = Append(buffer, r) /\ disk' = disk
           \/ buffer' = <<>> /\ disk' = [disk EXCEPT ![file] = Append(@ \o buffer, r)]
    PROVE  /\ ToSet(buffer') \cup ToSet(disk'[0]) \cup ToSet(disk'[1])
                = ToSet(buffer) \cup ToSet(disk[0]) \cup ToSet(disk[1]) \cup {r}
           /\ Written' = Written + 1
<1>1. /\ buffer \in Seq(Records) /\ disk[0] \in Seq(Records) /\ disk[1] \in Seq(Records)
      /\ disk \in [Hours -> Seq(Records)] /\ disk[file] \in Seq(Records)
  BY DEF Types, Hours
<1>4. Len(buffer) \in Nat /\ Lines0 \in Nat /\ Lines1 \in Nat
  BY <1>1 DEF Lines0, Lines1
<1>2. CASE buffer' = Append(buffer, r) /\ disk' = disk
  <2>1. ToSet(buffer') = ToSet(buffer) \cup {r} /\ Len(buffer') = Len(buffer) + 1
    BY <1>1, <1>2, SetOfAppend
  <2>2. Written' = Written + 1
    <3>1. Lines0' = Lines0 /\ Lines1' = Lines1 /\ Len(buffer') = Len(buffer) + 1
      BY <1>2, <2>1 DEF Lines0, Lines1
    <3> QED BY <1>4, <3>1 DEF Written
  <2>3. ToSet(buffer') \cup ToSet(disk'[0]) \cup ToSet(disk'[1])
           = ToSet(buffer) \cup ToSet(disk[0]) \cup ToSet(disk[1]) \cup {r}
    BY <1>2, <2>1
  <2> QED BY <2>2, <2>3
<1>3. CASE buffer' = <<>> /\ disk' = [disk EXCEPT ![file] = Append(@ \o buffer, r)]
  <2>1. disk[file] \o buffer \in Seq(Records) /\ Len(disk[file] \o buffer) = Len(disk[file]) + Len(buffer)
    BY <1>1
  <2>2. /\ disk'[file] = Append(disk[file] \o buffer, r)
        /\ \A h \in Hours \ {file} : disk'[h] = disk[h]
    BY <1>1, <1>3
  <2>3. ToSet(disk'[file]) = ToSet(disk[file]) \cup ToSet(buffer) \cup {r}
    <3>1. ToSet(disk[file] \o buffer) = ToSet(disk[file]) \cup ToSet(buffer)
      BY <1>1, SetOfConcat
    <3>2. ToSet(Append(disk[file] \o buffer, r)) = ToSet(disk[file] \o buffer) \cup {r}
      <4> DEFINE all == disk[file] \o buffer
      <4>1. all \in Seq(Records) /\ r \in Records
        BY <2>1
      <4> HIDE DEF all
      <4>2. ToSet(Append(all, r)) = ToSet(all) \cup {r}
        BY ONLY <4>1, SetOfAppend
      <4>3. QED
        BY <4>2 DEF all
    <3> QED BY <2>2, <3>1, <3>2
  <2>4. Len(disk'[file]) = Len(disk[file]) + Len(buffer) + 1
    BY <1>1, <2>1, <2>2
  <2>5. ToSet(buffer') = {} /\ Len(buffer') = 0
    BY <1>3, SetOfEmpty
  <2>6. CASE file = 0
    <3>1. disk'[1] = disk[1]
      BY <2>2, <2>6 DEF Hours
    <3>4. ToSet(disk'[0]) = ToSet(disk[0]) \cup ToSet(buffer) \cup {r}
      BY <2>3, <2>6
    <3>5. Lines0' = Lines0 + Len(buffer) + 1 /\ Lines1' = Lines1 /\ Len(buffer') = 0
      BY <2>4, <2>5, <2>6, <3>1 DEF Lines0, Lines1
    <3>2. Written' = Written + 1
      BY <1>4, <3>5 DEF Written
    <3>3. ToSet(buffer') \cup ToSet(disk'[0]) \cup ToSet(disk'[1])
             = ToSet(buffer) \cup ToSet(disk[0]) \cup ToSet(disk[1]) \cup {r}
      BY <2>5, <3>1, <3>4
    <3> QED BY <3>2, <3>3
  <2>7. CASE file = 1
    <3>1. disk'[0] = disk[0]
      BY <2>2, <2>7 DEF Hours
    <3>4. ToSet(disk'[1]) = ToSet(disk[1]) \cup ToSet(buffer) \cup {r}
      BY <2>3, <2>7
    <3>5. Lines1' = Lines1 + Len(buffer) + 1 /\ Lines0' = Lines0 /\ Len(buffer') = 0
      BY <2>4, <2>5, <2>7, <3>1 DEF Lines0, Lines1
    <3>2. Written' = Written + 1
      BY <1>4, <3>5 DEF Written
    <3>3. ToSet(buffer') \cup ToSet(disk'[0]) \cup ToSet(disk'[1])
             = ToSet(buffer) \cup ToSet(disk[0]) \cup ToSet(disk[1]) \cup {r}
      BY <2>5, <3>1, <3>4
    <3> QED BY <3>2, <3>3
  <2> QED BY <2>6, <2>7 DEF Hours
<1> QED BY <1>2, <1>3

LEMMA FlushedSizes ==
    ASSUME Types, file = NoFile => buffer = <<>>, buffer' = <<>>,
           disk' = Flushed \/ (file = NoFile /\ disk' = disk)
    PROVE  /\ ToSet(buffer') \cup ToSet(disk'[0]) \cup ToSet(disk'[1])
                = ToSet(buffer) \cup ToSet(disk[0]) \cup ToSet(disk[1])
           /\ Written' = Written
<1>1. /\ buffer \in Seq(Records) /\ disk[0] \in Seq(Records) /\ disk[1] \in Seq(Records)
      /\ disk \in [Hours -> Seq(Records)] /\ file \in {0, 1, NoFile} /\ NoFile \notin {0, 1}
  BY DEF Types, Hours, NoFile
<1>7. Len(buffer) \in Nat /\ Lines0 \in Nat /\ Lines1 \in Nat
  BY <1>1 DEF Lines0, Lines1
<1>2. ToSet(buffer') = {} /\ Len(buffer') = 0
  BY SetOfEmpty
<1>3. CASE file = NoFile
  <2>1. disk'[0] = disk[0] /\ disk'[1] = disk[1]
    BY <1>1, <1>3, FlushedFiles DEF Hours
  <2>2. Written' = Written
    BY <1>3, <2>1 DEF Written, Lines0, Lines1
  <2> QED BY <1>3, <2>1, <2>2
<1>4. ASSUME file \in Hours
      PROVE  /\ ToSet(disk'[file]) = ToSet(disk[file]) \cup ToSet(buffer)
             /\ Len(disk'[file]) = Len(disk[file]) + Len(buffer)
             /\ \A h \in Hours \ {file} : disk'[h] = disk[h]
  <2>1. disk' = Flushed
    BY <1>1, <1>4 DEF Hours
  <2>2. disk'[file] = disk[file] \o buffer /\ \A h \in Hours \ {file} : disk'[h] = disk[h]
    BY <1>4, <2>1, FlushedFiles
  <2>3. disk[file] \in Seq(Records)
    BY <1>1, <1>4
  <2> QED BY <1>1, <2>2, <2>3, SetOfConcat
<1>5. CASE file = 0
  <2>1. /\ disk'[1] = disk[1] /\ ToSet(disk'[0]) = ToSet(disk[0]) \cup ToSet(buffer)
        /\ Len(disk'[0]) = Len(disk[0]) + Len(buffer)
    BY <1>4, <1>5 DEF Hours
  <2>4. Lines0' = Lines0 + Len(buffer) /\ Lines1' = Lines1 /\ Len(buffer') = 0
    BY <1>2, <2>1 DEF Lines0, Lines1
  <2>2. Written' = Written
    BY <1>7, <2>4 DEF Written
  <2>3. ToSet(buffer') \cup ToSet(disk'[0]) \cup ToSet(disk'[1])
           = ToSet(buffer) \cup ToSet(disk[0]) \cup ToSet(disk[1])
    BY <1>2, <2>1
  <2> QED BY <2>2, <2>3
<1>6. CASE file = 1
  <2>1. /\ disk'[0] = disk[0] /\ ToSet(disk'[1]) = ToSet(disk[1]) \cup ToSet(buffer)
        /\ Len(disk'[1]) = Len(disk[1]) + Len(buffer)
    BY <1>4, <1>6 DEF Hours
  <2>4. Lines1' = Lines1 + Len(buffer) /\ Lines0' = Lines0 /\ Len(buffer') = 0
    BY <1>2, <2>1 DEF Lines0, Lines1
  <2>2. Written' = Written
    BY <1>7, <2>4 DEF Written
  <2>3. ToSet(buffer') \cup ToSet(disk'[0]) \cup ToSet(disk'[1])
           = ToSet(buffer) \cup ToSet(disk[0]) \cup ToSet(disk[1])
    BY <1>2, <2>1
  <2> QED BY <2>2, <2>3
<1> QED BY <1>1, <1>3, <1>5, <1>6

LEMMA PlacesKept == IInv /\ [Next]_vars /\ ~full /\ reader' \notin {"stopped", "failed"} /\ Places => Places'
<1> SUFFICES ASSUME IInv, [Next]_vars, ~full, reader' \notin {"stopped", "failed"}, Places PROVE Places'
  OBVIOUS
<1>1. /\ Types /\ Channel /\ Files /\ queue \in Seq(Records) /\ history \in Seq(Records)
      /\ errors \subseteq Records /\ IsFiniteSet(errors) /\ Cardinality(errors) \in Nat
      /\ buffer \in Seq(Records) /\ disk[0] \in Seq(Records) /\ disk[1] \in Seq(Records)
  BY RecordsAssumption, FS_Subset, FS_CardinalityType DEF IInv, Types, Hours
<1>2. Written \in Nat /\ Settled \in Int
  <2>1. Len(buffer) \in Nat /\ Lines0 \in Nat /\ Lines1 \in Nat
    BY <1>1 DEF Lines0, Lines1
  <2> QED BY <2>1, SettledMore DEF Written
<1>14. Cardinality(errors) \in Nat
  BY <1>1
<1>13. Settled = Written + Cardinality(errors)
  BY DEF Places
<1>3. ASSUME NEW r \in Records, Put(r) PROVE Places'
  <2>1. ToSet(history') = ToSet(history) \cup {r} /\ ToSet(queue') = ToSet(queue) \cup {r}
    BY <1>1, <1>3, SetOfAppend DEF Put
  <2>2. Len(queue') = Len(queue) + 1 /\ Len(history') = Len(history) + 1
    BY <1>1, <1>3 DEF Put
  <2>3. UNCHANGED <<buffer, disk, errors, hand>> /\ (reader' = "writing" <=> reader = "writing")
    BY <1>3 DEF Put, fileVars
  <2>4. Settled' = Settled
    BY <1>1, <2>2, <2>3 DEF Settled, Read
  <2>5. Written' = Written /\ InHand' = InHand
    BY <2>3 DEF Written, Lines0, Lines1, InHand
  <2>6. Taken' = ToSet(queue') \cup InHand' \cup ToSet(buffer') \cup ToSet(disk'[0]) \cup ToSet(disk'[1]) \cup errors'
    BY <2>1, <2>3, <2>5 DEF Places, Taken
  <2> QED BY <1>13, <2>3, <2>4, <2>5, <2>6 DEF Places
<1>4. ASSUME UNCHANGED <<queue, history, hand, errors>>, reader' = "writing" <=> reader = "writing",
             UNCHANGED <<buffer, disk>> \/ (/\ ToSet(buffer') \cup ToSet(disk'[0]) \cup ToSet(disk'[1])
                                                  = ToSet(buffer) \cup ToSet(disk[0]) \cup ToSet(disk[1])
                                            /\ Written' = Written)
      PROVE  Places'
  <2>1. Settled' = Settled /\ InHand' = InHand /\ Taken' = Taken
    BY <1>4 DEF Settled, Read, InHand, Taken
  <2>2. ToSet(buffer') \cup ToSet(disk'[0]) \cup ToSet(disk'[1])
           = ToSet(buffer) \cup ToSet(disk[0]) \cup ToSet(disk[1])
        /\ Written' = Written
    BY <1>4 DEF Written, Lines0, Lines1
  <2>3. Taken' = ToSet(queue') \cup InHand' \cup ToSet(buffer') \cup ToSet(disk'[0]) \cup ToSet(disk'[1]) \cup errors'
    BY <1>4, <2>1, <2>2 DEF Places
  <2>4. Settled' = Written' + Cardinality(errors')
    BY <1>4, <2>1, <2>2 DEF Places
  <2> QED BY <2>3, <2>4 DEF Places
<1>5. ASSUME NEW r \in Records, Count(r) \/ Drop(r) PROVE Places'
  BY <1>4, <1>5 DEF Count, Drop, fileVars, loopVars
<1>6. ASSUME queue # <<>>, queue' = Tail(queue), UNCHANGED history
      PROVE  /\ ToSet(queue) = {Head(queue)} \cup ToSet(queue') /\ Read' = Read + 1 /\ Taken' = Taken
             /\ Head(queue) \in Records /\ Read \in Nat
  BY <1>1, <1>6, NextRecord, SetOfTail DEF Taken
<1>7. CASE Take
  <2>1. reader = "reading" /\ reader' = "writing" /\ hand' = Head(queue)
        /\ queue # <<>> /\ queue' = Tail(queue) /\ UNCHANGED <<history, buffer, disk, errors>>
    BY <1>7 DEF Take, fileVars
  <2>2. InHand = {} /\ InHand' = {Head(queue)} /\ Settled' = Settled
    BY <1>6, <2>1 DEF InHand, Settled
  <2>3. Taken' = ToSet(queue') \cup InHand' \cup ToSet(buffer') \cup ToSet(disk'[0]) \cup ToSet(disk'[1]) \cup errors'
    BY <1>6, <2>1, <2>2 DEF Places
  <2>4. Written' = Written
    BY <2>1 DEF Written, Lines0, Lines1
  <2> QED BY <1>13, <2>1, <2>2, <2>3, <2>4 DEF Places
<1>8. CASE Discard
  <2>1. reader = "degraded" /\ reader' = reader /\ errors' = errors \cup {Head(queue)}
        /\ queue # <<>> /\ queue' = Tail(queue) /\ UNCHANGED <<history, buffer, disk>>
    BY <1>8 DEF Discard
  <2>2. InHand = {} /\ InHand' = {} /\ Settled' = Settled + 1
    BY <1>6, <2>1 DEF InHand, Settled
  <2>3. Head(queue) \notin errors
    <3>1. Pos(history, Head(queue)) = Settled + 1
      BY <1>1, <2>1, NextRecord DEF Settled
    <3> QED BY <1>1, <1>2, <3>1 DEF Files
  <2>4. Cardinality(errors') = Cardinality(errors) + 1
    BY <1>1, <2>1, <2>3, FS_AddElement
  <2>5. Taken' = ToSet(queue') \cup InHand' \cup ToSet(buffer') \cup ToSet(disk'[0]) \cup ToSet(disk'[1]) \cup errors'
    BY <1>6, <2>1, <2>2 DEF Places
  <2>6. Settled' = Written' + Cardinality(errors')
    <3>1. Settled' = Settled + 1 /\ Written' = Written
      BY <2>1, <2>2 DEF Written, Lines0, Lines1
    <3> QED BY <1>2, <1>13, <1>14, <2>4, <3>1
  <2> QED BY <2>5, <2>6 DEF Places
<1>9. CASE WriteLine
  <2>1. reader = "writing" /\ reader' = "reading" /\ UNCHANGED <<queue, history, errors>>
    BY <1>9 DEF WriteLine, channelVars
  <2>2. InHand = {hand} /\ InHand' = {} /\ Settled' = Settled + 1 /\ Taken' = Taken
    BY <1>9, <2>1, NextWritten DEF InHand, Taken
  <2>3. /\ ToSet(buffer') \cup ToSet(disk'[0]) \cup ToSet(disk'[1])
              = ToSet(buffer) \cup ToSet(disk[0]) \cup ToSet(disk[1]) \cup {hand}
        /\ Written' = Written + 1
    <3>1. /\ hand \in Records /\ file \in Hours
          /\ \/ buffer' = Append(buffer, hand) /\ disk' = disk
             \/ buffer' = <<>> /\ disk' = [disk EXCEPT ![file] = Append(@ \o buffer, hand)]
      BY <1>9, NextWritten
    <3> QED BY <1>1, <3>1, WrittenSizes
  <2>4. Taken' = ToSet(queue') \cup InHand' \cup ToSet(buffer') \cup ToSet(disk'[0]) \cup ToSet(disk'[1]) \cup errors'
    BY <2>1, <2>2, <2>3 DEF Places
  <2>5. Settled' = Written' + Cardinality(errors')
    <3>1. errors' = errors
      BY <2>1
    <3>2. Settled' = Settled + 1 /\ Cardinality(errors') = Cardinality(errors)
      BY <2>2, <3>1
    <3>3. Written' = Written + 1
      BY <2>3
    <3> QED BY <1>2, <1>13, <1>14, <3>2, <3>3
  <2> QED BY <2>4, <2>5 DEF Places
<1>10. CASE Drain
  <2>1. reader = "draining" /\ reader' = reader /\ queue # <<>> /\ queue' = Tail(queue)
        /\ UNCHANGED <<history, errors>>
    BY <1>10 DEF Drain, loopVars
  <2>2. InHand = {} /\ InHand' = {} /\ Settled' = Settled + 1
    BY <1>6, <2>1 DEF InHand, Settled
  <2>3. /\ ToSet(buffer') \cup ToSet(disk'[0]) \cup ToSet(disk'[1])
              = ToSet(buffer) \cup ToSet(disk[0]) \cup ToSet(disk[1]) \cup {Head(queue)}
        /\ Written' = Written + 1
    <3>1. /\ Head(queue) \in Records /\ file \in Hours
          /\ \/ buffer' = Append(buffer, Head(queue)) /\ disk' = disk
             \/ buffer' = <<>> /\ disk' = [disk EXCEPT ![file] = Append(@ \o buffer, Head(queue))]
      BY <1>10, NextWritten
    <3> QED BY <1>1, <3>1, WrittenSizes
  <2>4. Taken' = ToSet(queue') \cup InHand' \cup ToSet(buffer') \cup ToSet(disk'[0]) \cup ToSet(disk'[1]) \cup errors'
    BY <1>6, <2>1, <2>2, <2>3 DEF Places
  <2>5. Settled' = Written' + Cardinality(errors')
    <3>1. errors' = errors
      BY <2>1
    <3>2. Settled' = Settled + 1 /\ Cardinality(errors') = Cardinality(errors)
      BY <2>2, <3>1
    <3>3. Written' = Written + 1
      BY <2>3
    <3> QED BY <1>2, <1>13, <1>14, <3>2, <3>3
  <2> QED BY <2>4, <2>5 DEF Places
<1>11. ~DrainWithoutWriter /\ ~DrainFails /\ ~RotateFails /\ ~WriteFails
  BY DEF DrainWithoutWriter, DrainFails, RotateFails, WriteFails, Ended
<1>12. CASE StillStep
  <2>1. UNCHANGED <<queue, history, hand>> /\ (reader' = "writing" <=> reader = "writing")
    BY <1>12, StandStill DEF Still
  <2>2. ~DrainEnds /\ ~FlushFails
    BY DEF DrainEnds, Ended, FlushFails, CanFlush
  <2>3. CASE Rotate \/ Flush
    <3>1. buffer' = <<>> /\ errors' = errors /\ (disk' = Flushed \/ (file = NoFile /\ disk' = disk))
      BY <2>3 DEF Rotate, Flush
    <3>2. file = NoFile => buffer = <<>>
      BY <1>1 DEF Files
    <3> QED BY <1>1, <1>4, <2>1, <3>1, <3>2, FlushedSizes
  <2>4. CASE Open \/ DegradedStop \/ Wait \/ BatchEnds \/ FlushCancelled \/ Account
    BY <1>4, <2>1, <2>4 DEF Open, DegradedStop, Wait, BatchEnds, FlushCancelled, Account, fileVars
  <2>5. CASE FlushAsync \/ FlushReturns \/ FlushTimesOut \/ Stop \/ FillUp \/ FreeUp \/ UNCHANGED vars
    <3>1. UNCHANGED fileVars
      BY <2>5 DEF FlushAsync, FlushReturns, FlushTimesOut, Stop, FillUp, FreeUp, vars
    <3> QED BY <1>4, <2>1, <3>1 DEF fileVars
  <2> QED BY <1>12, <2>2, <2>3, <2>4, <2>5 DEF StillStep
<1> QED BY <1>3, <1>5, <1>7, <1>8, <1>9, <1>10, <1>11, <1>12, Steps
\* A disk that has not failed by now had not failed a step ago.
LEMMA NoFaultYet ==
    ASSUME IInv, [Next]_vars, diskFaults' = 0
    PROVE  diskFaults = 0 /\ (full' => full)
<1>1. CASE FillUp
  BY <1>1 DEF FillUp, IInv, Types
<1>2. ASSUME NEW r \in Records, Put(r) \/ Count(r) \/ Drop(r) PROVE UNCHANGED <<full, diskFaults>>
  BY <1>2 DEF Put, Count, Drop, hostVars
<1>3. CASE Discard \/ Take \/ Drain \/ DrainWithoutWriter \/ DrainFails \/ RotateFails \/ WriteLine \/ WriteFails
  BY <1>3 DEF Discard, Take, Drain, DrainWithoutWriter, DrainFails, RotateFails, WriteLine, WriteFails, hostVars
<1>4. CASE Open \/ DegradedStop \/ Wait \/ BatchEnds \/ Rotate \/ Flush \/ FlushCancelled \/ FlushFails
  BY <1>4 DEF Open, DegradedStop, Wait, BatchEnds, Rotate, Flush, FlushCancelled, FlushFails, hostVars
<1>5. CASE Account \/ DrainEnds
  BY <1>5 DEF Account, DrainEnds, hostVars
<1>6. CASE FlushAsync \/ FlushReturns \/ FlushTimesOut \/ UNCHANGED vars
  <2>1. UNCHANGED hostVars
    BY <1>6 DEF FlushAsync, FlushReturns, FlushTimesOut, vars
  <2> QED BY <2>1 DEF hostVars
<1>7. CASE Stop \/ FreeUp
  BY <1>7 DEF Stop, FreeUp
<1> QED BY <1>1, <1>2, <1>3, <1>4, <1>5, <1>6, <1>7, Steps DEF StillStep

LEMMA WholeKept == IInv /\ [Next]_vars => Whole'
<1> SUFFICES ASSUME IInv, [Next]_vars, diskFaults' = 0
             PROVE  /\ ~full' /\ ~crashed'
                    /\ reader' # "writing" => hand' = NoRecord
                    /\ reader' \notin {"stopped", "failed"} => Places'
  BY DEF Whole
<1>1. diskFaults = 0 /\ (full' => full)
  BY NoFaultYet
<1>2. ~full /\ ~crashed /\ (reader # "writing" => hand = NoRecord)
      /\ (reader \notin {"stopped", "failed"} => Places)
  BY <1>1 DEF IInv, Whole
<1>3. ~DrainFails /\ ~RotateFails /\ ~WriteFails /\ ~FlushFails
  BY <1>2 DEF DrainFails, RotateFails, WriteFails, FlushFails, CanFlush
<1>4. ~crashed' /\ (reader' # "writing" => hand' = NoRecord)
      /\ (reader' \notin {"stopped", "failed"} => reader \notin {"stopped", "failed"})
  <2>1. ASSUME NEW r \in Records, Put(r) \/ Count(r) \/ Drop(r)
        PROVE  crashed' = crashed /\ hand' = hand
               /\ (reader' = reader \/ (reader = "waiting" /\ reader' = "reading"))
    BY <2>1 DEF Put, Count, Drop, loopVars
  <2>2. CASE Discard \/ Take \/ Drain \/ DrainWithoutWriter
    BY <1>2, <2>2 DEF Discard, Take, Drain, DrainWithoutWriter, loopVars
  <2>3. CASE WriteLine
    BY <1>2, <2>3 DEF WriteLine
  <2>4. CASE Open \/ DegradedStop \/ Wait \/ BatchEnds \/ FlushCancelled
    BY <1>2, <2>4 DEF Open, DegradedStop, Wait, BatchEnds, FlushCancelled
  <2>5. CASE Rotate \/ Flush \/ Account \/ DrainEnds
    BY <1>2, <2>5 DEF Rotate, Flush, Account, DrainEnds, loopVars
  <2>6. CASE FlushAsync \/ FlushReturns \/ FlushTimesOut \/ FillUp \/ FreeUp \/ UNCHANGED vars
    <3>1. UNCHANGED loopVars
      BY <2>6 DEF FlushAsync, FlushReturns, FlushTimesOut, FillUp, FreeUp, vars
    <3> QED BY <1>2, <3>1 DEF loopVars
  <2>7. CASE Stop
    BY <1>2, <2>7 DEF Stop
  <2> QED BY <1>2, <1>3, <2>1, <2>2, <2>3, <2>4, <2>5, <2>6, <2>7, Steps DEF StillStep
<1> QED BY <1>1, <1>2, <1>4, PlacesKept DEF IInv, Types

LEMMA Invariance == Spec => []IInv
<1>1. Init => IInv
  BY InitInv
<1>2. IInv /\ [Next]_vars => IInv'
  BY TypesKept, ChannelKept, CountersKept, FilesKept, HoursKept, WholeKept DEF IInv
<1> QED BY <1>1, <1>2, PTL DEF Spec

-----------------------------------------------------------------------------
\* The queue keeps its bound, and no counter ever exceeds the records offered.
THEOREM TypeCorrect == Spec => []TypeOK
<1>1. IInv => TypeOK
  <2> SUFFICES ASSUME IInv PROVE TypeOK
    OBVIOUS
  <2>1. Types /\ Channel /\ Counters
    BY DEF IInv
  <2>2. /\ Cardinality(Records) \in Nat /\ enqueued <= Cardinality(Records)
        /\ Len(history) <= Cardinality(Records)
    BY <2>1, WithFinite DEF Counters
  <2>3. /\ processed \in Nat /\ pending \in Nat /\ enqueued \in Nat /\ target \in Nat
        /\ processed + pending <= Cardinality(Records) /\ target <= Cardinality(Records)
    <3>1. Len(history) \in Nat /\ Len(queue) \in Nat
      BY <2>1 DEF Types
    <3>2. processed \in Nat /\ pending \in Nat /\ enqueued \in Nat /\ target \in Nat
      BY <2>1 DEF Types
    <3>3. processed + pending <= Len(history) /\ target <= enqueued
      BY <2>1, <3>1, <3>2 DEF Counters, Settled, Read
    <3> QED BY <2>2, <3>1, <3>2, <3>3
  <2>4. ToSet(buffer) \subseteq Records /\ OnDisk \subseteq Records /\ DOMAIN disk = Hours
    <3>1. \A s \in Seq(Records) : ToSet(s) \subseteq Records
      BY DEF ToSet
    <3> QED BY <2>1, <3>1 DEF Types, OnDisk
  <2> QED BY <2>1, <2>2, <2>3, <2>4 DEF TypeOK, Types, Channel
<1> QED BY <1>1, Invariance, PTL

\* A file lists its records once each, in the order the channel took them, and
\* under their own hour until the log shuts down, whatever fails.
THEOREM FilesAreInOrder == Spec => []FilesInOrder
<1>1. IInv => FilesInOrder
  <2> SUFFICES ASSUME IInv, NEW h \in Hours
               PROVE  /\ \A i, j \in DOMAIN disk[h] : i < j => Position(disk[h][i]) < Position(disk[h][j])
                      /\ ~stopping /\ ~crashed => \A r \in ToSet(disk[h]) : Hour(r) = h
    BY DEF FilesInOrder
  <2>1. DOMAIN disk[h] = 1 .. Len(disk[h]) /\ Placed(history, disk[h], Settled)
    BY DEF IInv, Types, Files
  <2>2. \A r : Position(r) = Pos(history, r)
    BY DEF Position, Pos
  <2>3. \A i, j \in DOMAIN disk[h] : i < j => Position(disk[h][i]) < Position(disk[h][j])
    BY <2>1, <2>2 DEF Placed
  <2>4. ~stopping /\ ~crashed => \A r \in ToSet(disk[h]) : Hour(r) = h
    BY <2>1 DEF IInv, FilePerHour, ToSet
  <2> QED BY <2>3, <2>4
<1> QED BY <1>1, Invariance, PTL

\* With a working disk every record the channel took is queued, in hand, in
\* memory, on disk or counted as dropped, and in one of them only.
THEOREM NothingIsLost == Spec => []NothingLost
<1>1. IInv => NothingLost
  <2> SUFFICES ASSUME IInv, diskFaults = 0, reader \notin {"stopped", "failed"}
               PROVE  /\ Taken = ToSet(queue) \cup ({hand} \ {NoRecord}) \cup ToSet(buffer) \cup OnDisk \cup errors
                      /\ Len(history) = Len(queue) + Cardinality({hand} \ {NoRecord}) + Len(buffer)
                                           + Len(disk[0]) + Len(disk[1]) + Cardinality(errors)
    BY DEF NothingLost
  <2>1. Places /\ (reader # "writing" => hand = NoRecord)
    BY DEF IInv, Whole
  <2>2. OnDisk = ToSet(disk[0]) \cup ToSet(disk[1])
    BY DEF OnDisk, Hours
  <2>3. reader = "writing" => hand \in Records /\ hand # NoRecord
    <3>1. reader = "writing" => Read \in 1 .. Len(history) /\ hand = history[Read]
      BY DEF IInv, Types, Channel, Read
    <3> QED BY <3>1, RecordsAssumption DEF IInv, Types
  <2>4. {hand} \ {NoRecord} = InHand
    BY <2>1, <2>3 DEF InHand
  <2>5. Cardinality(InHand) = IF reader = "writing" THEN 1 ELSE 0
    BY FS_EmptySet, FS_Singleton DEF InHand
  <2>6. Taken = ToSet(queue) \cup ({hand} \ {NoRecord}) \cup ToSet(buffer) \cup OnDisk \cup errors
    BY <2>1, <2>2, <2>4 DEF Places
  <2>7. Len(history) = Len(queue) + Cardinality(InHand) + Len(buffer) + Lines0 + Lines1 + Cardinality(errors)
    <3>1. Len(buffer) \in Nat /\ Lines0 \in Nat /\ Lines1 \in Nat /\ Len(history) \in Nat /\ Len(queue) \in Nat
      BY DEF IInv, Types, Hours, Lines0, Lines1
    <3>2. Cardinality(errors) \in Nat
      BY RecordsAssumption, FS_Subset, FS_CardinalityType DEF IInv, Types
    <3>3. Settled = Written + Cardinality(errors)
      BY <2>1 DEF Places
    <3>4. Len(history) - Len(queue) = Settled + Cardinality(InHand)
      BY <2>5, <3>1 DEF Settled, Read
    <3> QED BY <2>5, <3>1, <3>2, <3>3, <3>4 DEF Written
  <2> QED BY <2>4, <2>6, <2>7 DEF Lines0, Lines1
<1> QED BY <1>1, Invariance, PTL

-----------------------------------------------------------------------------
(* What a shutdown and a flush leave behind. *)

\* Before the reader has a file it has written none, and with a working disk
\* only a log without a directory counts records as dropped.
Opened ==
    /\ reader \in {"start", "degraded"} => file = NoFile
    /\ reader = "counting" => buffer = <<>>
    /\ leftAtStop \subseteq Taken
    /\ diskFaults = 0 =>
          /\ file = NoFile /\ reader \notin {"stopped", "failed"} => OnDisk = {}
          /\ errors # {} => OnDisk = {} /\ reader \in {"degraded", "stopped"}
          /\ reader = "stopped" => stopping /\ (OnDisk = {} \/ leftAtStop \subseteq OnDisk)

LEMMA OnDiskIs == OnDisk = ToSet(disk[0]) \cup ToSet(disk[1])
BY DEF OnDisk, Hours

\* The channel only takes more records, behind those it took before.
LEMMA HistoryGrows ==
    ASSUME Types, [Next]_vars
    PROVE  /\ Len(history) <= Len(history') /\ Taken \subseteq Taken'
           /\ \A i \in 1 .. Len(history) : history'[i] = history[i]
<1>1. ASSUME NEW r \in Records, Put(r)
      PROVE  /\ Len(history) <= Len(history') /\ Taken \subseteq Taken'
             /\ \A i \in 1 .. Len(history) : history'[i] = history[i]
  <2>1. history' = Append(history, r) /\ history \in Seq(Records)
    BY <1>1 DEF Put, Types
  <2>2. Taken' = Taken \cup {r}
    BY <2>1, SetOfAppend DEF Taken
  <2> QED BY <2>1, <2>2
<1>2. ASSUME history' = history
      PROVE  /\ Len(history) <= Len(history') /\ Taken \subseteq Taken'
             /\ \A i \in 1 .. Len(history) : history'[i] = history[i]
  BY <1>2 DEF Taken, Types
<1>3. ASSUME NEW r \in Records, Count(r) \/ Drop(r) PROVE history' = history
  BY <1>3 DEF Count, Drop
<1>4. CASE Discard \/ Take \/ Drain \/ DrainWithoutWriter \/ DrainFails \/ RotateFails
           \/ WriteLine \/ WriteFails
  <2>1. history' = history
    BY <1>4 DEF Discard, Take, Drain, DrainWithoutWriter, DrainFails, RotateFails, WriteLine,
                WriteFails, channelVars
  <2> QED BY <1>2, <2>1
<1>5. CASE StillStep
  BY <1>2, <1>5, StandStill DEF Still
<1> QED BY <1>1, <1>2, <1>3, <1>4, <1>5, Steps

\* What a write or a drain adds to a file, and a flush.
LEMMA WrittenOnDisk ==
    ASSUME Types, NEW r \in Records, file \in Hours,
           disk' = disk \/ disk' = [disk EXCEPT ![file] = Append(@ \o buffer, r)]
    PROVE  OnDisk \subseteq OnDisk'
<1>1. CASE disk' = disk
  BY <1>1 DEF OnDisk
<1>2. CASE disk' = [disk EXCEPT ![file] = Append(@ \o buffer, r)]
  <2>1. disk[file] \o buffer \in Seq(Records) /\ disk[file] \in Seq(Records)
    BY DEF Types
  <2>2. ToSet(disk[file]) \subseteq ToSet(Append(disk[file] \o buffer, r))
    <3>1. ToSet(Append(disk[file] \o buffer, r)) = ToSet(disk[file] \o buffer) \cup {r}
      <4> DEFINE all == disk[file] \o buffer
      <4>1. all \in Seq(Records) /\ r \in Records
        BY <2>1
      <4> HIDE DEF all
      <4>2. ToSet(Append(all, r)) = ToSet(all) \cup {r}
        BY ONLY <4>1, SetOfAppend
      <4>3. QED
        BY <4>2 DEF all
    <3>2. ToSet(disk[file] \o buffer) = ToSet(disk[file]) \cup ToSet(buffer)
      BY <2>1, SetOfConcat DEF Types
    <3> QED BY <3>1, <3>2
  <2>3. \A h \in Hours : disk'[h] = IF h = file THEN Append(disk[file] \o buffer, r) ELSE disk[h]
    BY <1>2 DEF Types
  <2>4. \A h \in Hours : ToSet(disk[h]) \subseteq ToSet(disk'[h])
    BY <2>2, <2>3
  <2> QED BY <2>4 DEF OnDisk
<1> QED BY <1>1, <1>2

LEMMA FlushedOnDisk ==
    ASSUME Types, Files, disk' = Flushed \/ (disk' = disk /\ file = NoFile)
    PROVE  OnDisk' = OnDisk \cup ToSet(buffer)
<1>1. CASE file = NoFile
  <2>1. \A h \in Hours : Flushed[h] = disk[h]
    BY <1>1, FlushedFiles DEF Hours, NoFile
  <2>2. ToSet(buffer) = {}
    BY <1>1, SetOfEmpty DEF Files
  <2> QED BY <2>1, <2>2 DEF OnDisk
<1>2. CASE file \in Hours
  <2>1. disk' = Flushed
    BY <1>2 DEF Hours, NoFile
  <2>2. \A h \in Hours : disk'[h] = IF h = file THEN disk[h] \o buffer ELSE disk[h]
    BY <2>1, FlushedFiles
  <2>3. ToSet(disk[file] \o buffer) = ToSet(disk[file]) \cup ToSet(buffer)
    BY <1>2, SetOfConcat DEF Types
  <2>4. \A h \in Hours :
           ToSet(disk'[h]) = IF h = file THEN ToSet(disk[h]) \cup ToSet(buffer) ELSE ToSet(disk[h])
    BY <2>2, <2>3
  <2> QED BY <1>2, <2>4 DEF OnDisk
<1> QED BY <1>1, <1>2 DEF Types

\* The steps that touch no file and neither start nor end the reader.
Elsewhere ==
    /\ UNCHANGED <<file, buffer, disk, errors, stopping, leftAtStop>>
    /\ \/ reader' = reader
       \/ /\ reader \notin {"degraded", "stopped", "failed"}
          /\ reader' \notin {"start", "counting", "stopped", "failed"}
          /\ reader' = "degraded" => reader = "start"

LEMMA Turns ==
    ASSUME [Next]_vars, ~full
    PROVE  \/ Elsewhere \/ Stop \/ DegradedStop \/ Discard \/ WriteLine \/ Drain
           \/ Rotate \/ Flush \/ DrainEnds \/ DrainWithoutWriter
<1>1. ASSUME NEW r \in Records, Put(r) \/ Count(r) \/ Drop(r) PROVE Elsewhere
  BY <1>1 DEF Elsewhere, Put, Count, Drop, fileVars, loopVars, hostVars
<1>2. CASE Open \/ Wait \/ Take \/ BatchEnds \/ FlushCancelled \/ Account
  BY <1>2 DEF Elsewhere, Open, Wait, Take, BatchEnds, FlushCancelled, Account, fileVars, hostVars
<1>3. CASE FlushAsync \/ FlushReturns \/ FlushTimesOut \/ FillUp \/ FreeUp \/ UNCHANGED vars
  BY <1>3 DEF Elsewhere, FlushAsync, FlushReturns, FlushTimesOut, FillUp, FreeUp, vars, fileVars,
              loopVars, hostVars
<1>4. ~DrainFails /\ ~RotateFails /\ ~WriteFails /\ ~FlushFails
  BY DEF DrainFails, RotateFails, WriteFails, FlushFails, CanFlush
<1> QED BY <1>1, <1>2, <1>3, <1>4, Steps DEF StillStep

LEMMA OpenedKept == IInv /\ Opened /\ [Next]_vars => Opened'
<1> SUFFICES ASSUME IInv, Opened, [Next]_vars PROVE Opened'
  OBVIOUS
<1>1. leftAtStop' \subseteq Taken'
  <2>1. leftAtStop' \subseteq Taken
    <3>1. ASSUME NEW r \in Records, Put(r) \/ Count(r) \/ Drop(r) PROVE leftAtStop' = leftAtStop
      BY <3>1 DEF Put, Count, Drop, hostVars
    <3>2. CASE Discard \/ Take \/ Drain \/ DrainWithoutWriter \/ DrainFails \/ RotateFails
               \/ WriteLine \/ WriteFails
      BY <3>2 DEF Discard, Take, Drain, DrainWithoutWriter, DrainFails, RotateFails, WriteLine,
                  WriteFails, hostVars, Opened
    <3>3. CASE Open \/ DegradedStop \/ Wait \/ BatchEnds \/ Rotate \/ Flush \/ FlushCancelled
      BY <3>3 DEF Open, DegradedStop, Wait, BatchEnds, Rotate, Flush, FlushCancelled, hostVars, Opened
    <3>4. CASE FlushFails \/ Account \/ DrainEnds
      BY <3>4 DEF FlushFails, Account, DrainEnds, hostVars, Opened
    <3>5. CASE FlushAsync \/ FlushReturns \/ FlushTimesOut \/ FillUp \/ FreeUp \/ UNCHANGED vars
      BY <3>5 DEF FlushAsync, FlushReturns, FlushTimesOut, FillUp, FreeUp, vars, hostVars, Opened
    <3>6. CASE Stop
      BY <3>6 DEF Stop
    <3> QED BY <3>1, <3>2, <3>3, <3>4, <3>5, <3>6, Steps DEF StillStep, Opened
  <2> QED BY <2>1, HistoryGrows DEF IInv
<1>2. /\ reader' \in {"start", "degraded"} => file' = NoFile
      /\ reader' = "counting" => buffer' = <<>>
  <2>1. ASSUME NEW r \in Records, Put(r) \/ Count(r) \/ Drop(r) PROVE Elsewhere
    BY <2>1 DEF Elsewhere, Put, Count, Drop, fileVars, loopVars, hostVars
  <2>2. CASE Elsewhere
    BY <2>2 DEF Elsewhere, Opened
  <2>3. CASE Discard \/ Take \/ Drain \/ DrainWithoutWriter \/ DrainFails
    BY <2>3 DEF Discard, Take, Drain, DrainWithoutWriter, DrainFails, Ended, Opened, fileVars, loopVars
  <2>4. CASE RotateFails \/ WriteLine \/ WriteFails \/ Rotate \/ Flush \/ FlushFails
    BY <2>4 DEF RotateFails, WriteLine, WriteFails, Rotate, Flush, FlushFails, loopVars
  <2>5. CASE Open \/ DegradedStop \/ Wait \/ BatchEnds \/ FlushCancelled \/ Account
    BY <2>5 DEF Open, DegradedStop, Wait, BatchEnds, FlushCancelled, Account, Opened, fileVars
  <2>6. CASE DrainEnds
    BY <2>6 DEF DrainEnds, Ended
  <2>7. CASE FlushAsync \/ FlushReturns \/ FlushTimesOut \/ Stop \/ FillUp \/ FreeUp
             \/ UNCHANGED vars
    BY <2>7 DEF FlushAsync, FlushReturns, FlushTimesOut, Stop, FillUp, FreeUp, vars, fileVars,
                loopVars, Opened
  <2> QED BY <2>1, <2>2, <2>3, <2>4, <2>5, <2>6, <2>7, Steps DEF StillStep
<1>3. ASSUME diskFaults' = 0
      PROVE  /\ file' = NoFile /\ reader' \notin {"stopped", "failed"} => OnDisk' = {}
             /\ errors' # {} => OnDisk' = {} /\ reader' \in {"degraded", "stopped"}
             /\ reader' = "stopped" =>
                   stopping' /\ (OnDisk' = {} \/ leftAtStop' \subseteq OnDisk')
  <2>1. diskFaults = 0
    BY <1>3, NoFaultYet
  <2>2. ~full /\ ~crashed /\ (reader \notin {"stopped", "failed"} => Places)
    BY <2>1 DEF IInv, Whole
  <2>3. /\ file = NoFile /\ reader \notin {"stopped", "failed"} => OnDisk = {}
        /\ errors # {} => OnDisk = {} /\ reader \in {"degraded", "stopped"}
        /\ reader = "stopped" => stopping /\ (OnDisk = {} \/ leftAtStop \subseteq OnDisk)
    BY <2>1 DEF Opened
  <2>4. CASE Elsewhere
    BY <2>3, <2>4 DEF Elsewhere, OnDisk
  <2>5. CASE Stop
    <3>1. /\ UNCHANGED <<file, disk, errors>> /\ ~stopping
          /\ reader' = reader \/ (reader = "waiting" /\ reader' = "draining")
      BY <2>5 DEF Stop, fileVars
    <3> QED BY <2>3, <3>1 DEF OnDisk
  <2>6. CASE DegradedStop
    <3>1. reader = "degraded" /\ stopping' /\ file = NoFile /\ disk' = disk /\ reader' = "stopped"
      BY <2>6 DEF DegradedStop, Opened, hostVars, fileVars
    <3> QED BY <2>3, <3>1 DEF OnDisk
  <2>7. CASE Discard
    <3>1. reader = "degraded" /\ reader' = "degraded" /\ file = NoFile /\ disk' = disk
      BY <2>7 DEF Discard, Opened
    <3> QED BY <2>3, <3>1 DEF OnDisk
  <2>8. CASE WriteLine \/ Drain
    <3>1. /\ reader \in {"writing", "draining"} /\ reader' \in {"reading", "draining"}
          /\ file' = file /\ file # NoFile /\ errors' = errors
      BY <2>8 DEF WriteLine, Drain, loopVars, Hour, NoFile
    <3> QED BY <2>3, <3>1
  <2>9. CASE Rotate
    <3>1. reader = "writing" /\ reader' = "writing" /\ file' # NoFile /\ errors' = errors
      BY <2>9 DEF Rotate, loopVars, Hour, NoFile
    <3> QED BY <2>3, <3>1
  <2>10. CASE Flush
    <3>1. reader = "flushing" /\ reader' = "counting" /\ file' = file /\ errors' = errors
          /\ disk' = Flushed
      BY <2>10 DEF Flush
    <3>2. file = NoFile => OnDisk' = OnDisk
      BY <3>1, FlushedOnDisk, SetOfEmpty DEF IInv, Files
    <3> QED BY <2>3, <3>1, <3>2
  <2>11. CASE DrainEnds
    <3>1. reader = "draining" /\ queue = <<>> /\ reader' = "stopped"
          /\ UNCHANGED <<errors, stopping, leftAtStop>>
          /\ (disk' = Flushed \/ (disk' = disk /\ file = NoFile))
      BY <2>2, <2>11 DEF DrainEnds, Ended, hostVars
    <3>2. OnDisk' = OnDisk \cup ToSet(buffer)
      BY <3>1, FlushedOnDisk DEF IInv
    <3>3. ToSet(queue) = {} /\ InHand = {} /\ errors = {}
      BY <2>3, <3>1, SetOfEmpty DEF InHand
    <3>4. Taken = OnDisk'
      BY <2>2, <3>1, <3>2, <3>3, OnDiskIs DEF Places
    <3>5. leftAtStop' \subseteq OnDisk'
      BY <3>1, <3>4 DEF Opened
    <3>6. stopping'
      BY <2>2, <3>1 DEF IInv, FilePerHour
    <3> QED BY <3>1, <3>3, <3>5, <3>6
  <2>12. CASE DrainWithoutWriter
    <3>1. reader = "draining" /\ file = NoFile /\ reader' = "stopped"
          /\ UNCHANGED <<disk, errors, stopping>>
      BY <2>2, <2>12 DEF DrainWithoutWriter, Ended, fileVars, hostVars
    <3>2. stopping'
      BY <2>2, <3>1 DEF IInv, FilePerHour
    <3> QED BY <2>3, <3>1, <3>2 DEF OnDisk
  <2> QED BY <2>2, <2>4, <2>5, <2>6, <2>7, <2>8, <2>9, <2>10, <2>11, <2>12, Turns
<1> QED BY <1>1, <1>2, <1>3 DEF Opened

LEMMA InitOpened == Init => Opened
<1> SUFFICES ASSUME Init PROVE Opened
  OBVIOUS
<1>1. OnDisk = {}
  BY SetOfEmpty, OnDiskIs DEF Init, Hours
<1> QED BY <1>1 DEF Init, Opened

\* A shutdown with a working disk writes whatever the channel held or the
\* reader had in hand or in memory when it began, wherever the reader was,
\* once a file had been opened.
THEOREM ShutdownIsClean == Spec => []CleanShutdownLosesNothing
<1>1. IInv /\ Opened => CleanShutdownLosesNothing
  BY DEF Opened, CleanShutdownLosesNothing
<1> QED BY <1>1, Invariance, InitOpened, OpenedKept, InitInv, PTL DEF Spec

-----------------------------------------------------------------------------
(* FlushAsync. *)

\* What is counted as processed is out of memory, and what a call of FlushAsync
\* was promised is among the records taken up to its target.
Durable == diskFaults = 0 => \A i \in 1 .. processed : history[i] \in OnDisk \cup errors
Promise ==
    flush = "waiting" /\ exact =>
        target <= Len(history) /\ promised \subseteq {history[i] : i \in 1 .. target}

\* With nothing in memory all settled records are on disk, or were dropped.
SettledOnDisk ==
    IInv /\ diskFaults = 0 /\ reader \notin {"stopped", "failed"} /\ buffer = <<>> =>
        \A i \in 1 .. Settled : history[i] \in OnDisk \cup errors

LEMMA NothingInMemory == SettledOnDisk
<1> SUFFICES ASSUME IInv, diskFaults = 0, reader \notin {"stopped", "failed"}, buffer = <<>>,
                    NEW i \in 1 .. Settled
             PROVE  history[i] \in OnDisk \cup errors
  BY DEF SettledOnDisk
<1>1. Types /\ Channel /\ Places
  BY DEF IInv, Whole
<1>2. /\ Len(queue) \in Nat /\ Len(history) \in Nat /\ Read <= Len(history) /\ Read \in Int
      /\ DOMAIN history = 1 .. Len(history) /\ DOMAIN queue = 1 .. Len(queue)
  BY <1>1 DEF Types, Read
<1>3. i \in 1 .. Len(history) /\ i <= Read /\ (reader = "writing" => i < Read)
  BY <1>2 DEF Settled
<1>4. history[i] \notin ToSet(queue)
  <2> SUFFICES ASSUME NEW j \in 1 .. Len(queue), queue[j] = history[i] PROVE FALSE
    BY <1>2 DEF ToSet
  <2>1. queue[j] = history[Read + j] /\ Read + j \in 1 .. Len(history)
    BY <1>1, <1>2, <1>3 DEF Channel, Read
  <2>2. Read + j = i
    BY <1>1, <1>2, <1>3, <2>1 DEF Channel
  <2> QED BY <1>2, <1>3, <2>2
<1>5. history[i] \notin InHand
  <2> SUFFICES ASSUME reader = "writing", hand = history[i] PROVE FALSE
    BY DEF InHand
  <2>1. Read \in 1 .. Len(history) /\ hand = history[Read]
    BY <1>1, <1>2 DEF Channel
  <2>2. Read = i
    BY <1>1, <1>2, <1>3, <2>1 DEF Channel
  <2> QED BY <1>3, <2>2
<1>6. history[i] \in Taken
  BY <1>2, <1>3 DEF Taken, ToSet
<1> QED BY <1>1, <1>4, <1>5, <1>6, OnDiskIs, SetOfEmpty DEF Places

LEMMA NothingInMemoryNext == SettledOnDisk'
BY NothingInMemory, PTL

LEMMA DurableKept == IInv /\ IInv' /\ Opened /\ Durable /\ [Next]_vars => Durable'
<1> SUFFICES ASSUME IInv, IInv', Opened, Durable, [Next]_vars, diskFaults' = 0
             PROVE  \A i \in 1 .. processed' : history'[i] \in OnDisk' \cup errors'
  BY DEF Durable
<1>1. diskFaults = 0
  BY NoFaultYet
<1>2. ~full /\ ~crashed
  BY <1>1 DEF IInv, Whole
<1>3. processed' <= Settled' /\ processed' \in Nat /\ Settled' \in Int
  <2>1. processed' \in Nat /\ pending' \in Nat /\ Len(history') \in Nat /\ Len(queue') \in Nat
    BY DEF IInv, Types
  <2> QED BY <2>1 DEF IInv, Counters, Settled, Read
<1>4. processed \in Nat /\ processed <= Len(history) /\ Len(history) \in Nat
  <2>1. processed \in Nat /\ pending \in Nat /\ Len(history) \in Nat /\ Len(queue) \in Nat
    BY DEF IInv, Types
  <2> QED BY <2>1 DEF IInv, Counters, Settled, Read
<1>5. ASSUME processed' = processed, OnDisk \subseteq OnDisk', errors \subseteq errors'
      PROVE  \A i \in 1 .. processed' : history'[i] \in OnDisk' \cup errors'
  <2> SUFFICES ASSUME NEW i \in 1 .. processed PROVE history'[i] \in OnDisk' \cup errors'
    BY <1>5
  <2>1. i \in 1 .. Len(history)
    BY <1>4
  <2>2. history'[i] = history[i]
    BY <2>1, HistoryGrows DEF IInv
  <2> QED BY <1>1, <1>5, <2>2 DEF Durable
<1>6. ASSUME reader' \in {"degraded", "idle"}, buffer' = <<>>
      PROVE  \A i \in 1 .. processed' : history'[i] \in OnDisk' \cup errors'
  <2>1. \A i \in 1 .. Settled' : history'[i] \in OnDisk' \cup errors'
    BY <1>1, <1>6, NothingInMemoryNext DEF SettledOnDisk
  <2> QED BY <1>3, <2>1
<1>7. ASSUME NEW r \in Records, Put(r) \/ Count(r) \/ Drop(r)
      PROVE  processed' = processed /\ UNCHANGED <<disk, errors>>
  BY <1>7 DEF Put, Count, Drop, fileVars, loopVars
<1>8. CASE Open \/ Wait \/ Take \/ BatchEnds \/ FlushCancelled \/ DegradedStop \/ DrainWithoutWriter
  <2>1. processed' = processed /\ UNCHANGED <<disk, errors>>
    BY <1>8 DEF Open, Wait, Take, BatchEnds, FlushCancelled, DegradedStop, DrainWithoutWriter, fileVars
  <2> QED BY <1>5, <2>1 DEF OnDisk
<1>9. CASE FlushAsync \/ FlushReturns \/ FlushTimesOut \/ FillUp \/ FreeUp \/ Stop \/ UNCHANGED vars
  <2>1. processed' = processed /\ UNCHANGED <<disk, errors>>
    BY <1>9 DEF FlushAsync, FlushReturns, FlushTimesOut, FillUp, FreeUp, Stop, vars, fileVars, loopVars
  <2> QED BY <1>5, <2>1 DEF OnDisk
<1>10. CASE Discard
  <2>1. reader' = "degraded" /\ buffer' = buffer /\ file = NoFile
    BY <1>10 DEF Discard, Opened
  <2> QED BY <1>6, <2>1 DEF IInv, Files
<1>11. CASE Account
  <2>1. reader' = "idle" /\ buffer' = <<>>
    BY <1>11 DEF Account, Opened, fileVars
  <2> QED BY <1>6, <2>1
<1>12. CASE WriteLine \/ Drain
  <2>1. PICK r : (WriteLine /\ r = hand) \/ (Drain /\ r = Head(queue))
    BY <1>12
  <2>2. OnDisk \subseteq OnDisk' /\ errors' = errors
    BY <2>1, NextWritten, WrittenOnDisk DEF IInv
  <2>3. processed' = processed
    BY <1>12 DEF WriteLine, Drain, loopVars
  <2> QED BY <1>5, <2>2, <2>3
<1>13. CASE Rotate \/ Flush \/ DrainEnds
  <2>1. /\ processed' = processed /\ errors' = errors
        /\ disk' = Flushed \/ (disk' = disk /\ file = NoFile)
    BY <1>13 DEF Rotate, Flush, DrainEnds, loopVars
  <2> QED BY <1>5, <2>1, FlushedOnDisk DEF IInv
<1>14. ~DrainFails /\ ~RotateFails /\ ~WriteFails /\ ~FlushFails
  BY <1>2 DEF DrainFails, RotateFails, WriteFails, FlushFails, CanFlush
<1>15. ASSUME NEW r \in Records, Put(r) \/ Count(r) \/ Drop(r)
       PROVE  \A i \in 1 .. processed' : history'[i] \in OnDisk' \cup errors'
  BY <1>5, <1>7, <1>15 DEF OnDisk
<1> QED BY <1>8, <1>9, <1>10, <1>11, <1>12, <1>13, <1>14, <1>15, Steps DEF StillStep

LEMMA PromiseKept == IInv /\ Promise /\ [Next]_vars => Promise'
<1> SUFFICES ASSUME IInv, Promise, [Next]_vars, flush' = "waiting", exact'
             PROVE  target' <= Len(history') /\ promised' \subseteq {history'[i] : i \in 1 .. target'}
  BY DEF Promise
<1>1. Types /\ Len(history) \in Nat /\ Len(history') \in Nat /\ target \in Nat
  <2>1. Types /\ Types'
    BY TypesKept DEF IInv
  <2> QED BY <2>1 DEF Types
<1>2. CASE FlushAsync
  <2>1. /\ target' = enqueued /\ promised' = With({"counted"}) /\ history' = history
        /\ \A r \in Records : producer[r] # "queued"
    BY <1>2 DEF FlushAsync, With, channelVars
  <2>2. With({"queued", "counted"}) = With({"counted"})
    BY <2>1 DEF With
  <2>3. enqueued = Len(history) /\ promised' = ToSet(history)
    BY <2>1, <2>2 DEF IInv, Counters, Channel
  <2>4. DOMAIN history = 1 .. Len(history)
    BY <1>1 DEF Types
  <2> QED BY <1>1, <2>1, <2>3, <2>4 DEF ToSet
<1>3. CASE UNCHANGED flushVars
  <2>1. target <= Len(history) /\ promised \subseteq {history[i] : i \in 1 .. target}
    BY <1>3 DEF flushVars, Promise
  <2>2. /\ Len(history) <= Len(history')
        /\ \A i \in 1 .. Len(history) : history'[i] = history[i]
    BY <1>1, HistoryGrows
  <2>3. \A i \in 1 .. target : history'[i] = history[i]
    BY <1>1, <2>1, <2>2
  <2> QED BY <1>1, <1>3, <2>1, <2>2, <2>3 DEF flushVars
<1>4. ASSUME NEW r \in Records, Put(r) \/ Count(r) \/ Drop(r) PROVE UNCHANGED flushVars
  BY <1>4 DEF Put, Count, Drop
<1>5. CASE Discard \/ Take \/ Drain \/ DrainWithoutWriter \/ DrainFails \/ RotateFails
           \/ WriteLine \/ WriteFails
  <2>1. UNCHANGED flushVars
    BY <1>5 DEF Discard, Take, Drain, DrainWithoutWriter, DrainFails, RotateFails, WriteLine, WriteFails
  <2> QED BY <1>3, <2>1
<1>6. CASE Open \/ DegradedStop \/ Wait \/ BatchEnds \/ Rotate \/ Flush \/ FlushCancelled
           \/ FlushFails \/ Account \/ DrainEnds
  <2>1. UNCHANGED flushVars
    BY <1>6 DEF Open, DegradedStop, Wait, BatchEnds, Rotate, Flush, FlushCancelled, FlushFails,
                Account, DrainEnds
  <2> QED BY <1>3, <2>1
<1>7. CASE Stop \/ FillUp \/ FreeUp \/ UNCHANGED vars
  <2>1. UNCHANGED flushVars
    BY <1>7 DEF Stop, FillUp, FreeUp, vars
  <2> QED BY <1>3, <2>1
<1>8. ~FlushReturns /\ ~FlushTimesOut
  BY DEF FlushReturns, FlushTimesOut
<1> QED BY <1>2, <1>3, <1>4, <1>5, <1>6, <1>7, <1>8, Steps DEF StillStep

\* When FlushAsync returns true, everything that was counted before the call
\* is on disk, or was dropped by a log without a directory, unless a producer
\* stood between its TryWrite and its count at that moment.
THEOREM FlushCoversTheCounted == Spec => FlushCovers
<1> DEFINE A == FlushReturns /\ exact /\ diskFaults = 0 => promised \subseteq OnDisk \cup errors
<1>1. IInv /\ Durable /\ Promise /\ [Next]_vars => A
  <2> SUFFICES ASSUME IInv, Durable, Promise, FlushReturns, exact, diskFaults = 0
               PROVE  promised \subseteq OnDisk \cup errors
    OBVIOUS
  <2>1. flush = "waiting" /\ target <= processed /\ target \in Nat /\ processed \in Nat
    BY DEF FlushReturns, IInv, Types
  <2>2. promised \subseteq {history[i] : i \in 1 .. target}
    BY <2>1 DEF Promise
  <2>3. \A i \in 1 .. target : history[i] \in OnDisk \cup errors
    BY <2>1 DEF Durable
  <2> QED BY <2>2, <2>3
<1>2. Init => Durable /\ Promise
  BY DEF Init, Durable, Promise
<1>3. IInv /\ [Next]_vars => IInv'
  BY TypesKept, ChannelKept, CountersKept, FilesKept, HoursKept, WholeKept DEF IInv
<1> QED BY <1>1, <1>2, <1>3, InitInv, InitOpened, OpenedKept, DurableKept, PromiseKept, PTL
        DEF Spec, FlushCovers
==============================================================================
