---------------------------- MODULE ProcessProofs ----------------------------
(***************************************************************************)
(* Theorems about one asyncWriter (AsyncLog) for any number of producers   *)
(* and archive workers, any capacities, and files that may fail to open or *)
(* to be written; about the end of the process (Lifecycle) for any requests and jobs; and *)
(* about prometheus/nodes.yml (NodeMonitor) for any requests.              *)
(***************************************************************************)
EXTENDS Process, SequenceTheorems, FiniteSetTheorems, TLAPS

LEMMA MoveHead ==
  ASSUME NEW c \in Seq(Line), c # <<>>
  PROVE  /\ Head(c) \in Line /\ Tail(c) \in Seq(Line)
         /\ Len(Tail(c)) = Len(c) - 1
         /\ c = <<Head(c)>> \o Tail(c)
  OBVIOUS

LEMMA ConcatFacts ==
  ASSUME NEW a \in Seq(Line), NEW b \in Seq(Line), NEW l \in Line
  PROVE  /\ a \o b \in Seq(Line) /\ Len(a \o b) = Len(a) + Len(b)
         /\ Len(a) <= Len(a \o b)
         /\ Append(a, l) = a \o <<l>> /\ Append(a, l) \in Seq(Line)
         /\ Len(Append(a, l)) = Len(a) + 1
         /\ a \o <<>> = a
  OBVIOUS

\* Wherever writeToBuf puts the head of the channel, in the buffer, in an
\* emptied buffer or nowhere, the lines keep their order.
LEMMA MoveOne ==
  ASSUME NEW o \in Seq(Line), NEW b \in Seq(Line), NEW c \in Seq(Line), c # <<>>
  PROVE  /\ o \o Append(b, Head(c)) \o Tail(c) = o \o b \o c
         /\ (o \o b) \o <<Head(c)>> \o Tail(c) = o \o b \o c
         /\ Append(o \o b, Head(c)) \o <<>> \o Tail(c) = o \o b \o c
<1> DEFINE l == <<Head(c)>>  t == Tail(c)
<1>1. l \in Seq(Line) /\ t \in Seq(Line) /\ c = l \o t /\ Head(c) \in Line
  BY MoveHead
<1>2. o \o b \in Seq(Line) /\ b \o l \in Seq(Line)
  BY <1>1, ConcatFacts
<1>3. (o \o b) \o l \o t = o \o b \o c
  BY <1>1, <1>2, ConcatAssociative
<1>4. Append(b, Head(c)) = b \o l
  BY <1>1, ConcatFacts
<1>5. o \o (b \o l) = (o \o b) \o l
  BY <1>1, ConcatAssociative
<1>6. Append(o \o b, Head(c)) = (o \o b) \o l /\ (o \o b) \o l \in Seq(Line)
  BY <1>1, <1>2, ConcatFacts
<1>7. ((o \o b) \o l) \o <<>> = (o \o b) \o l
  BY <1>6, ConcatEmptySeq
<1> HIDE DEF l, t
<1> QED
  BY <1>3, <1>4, <1>5, <1>6, <1>7 DEF l, t

\* What the archive queue holds.
Queued(q) == {q[i] : i \in DOMAIN q}
Held == {holding[a] : a \in ArchiveWorker} \ {NoFile}

LEMMA QueuedAppend ==
  ASSUME NEW q \in Seq(Day), NEW d \in Day
  PROVE  Queued(Append(q, d)) = Queued(q) \cup {d}
<1>1. \A i \in DOMAIN q : i \in DOMAIN Append(q, d) /\ Append(q, d)[i] = q[i]
  OBVIOUS
<1>2. /\ Len(q) + 1 \in DOMAIN Append(q, d)
      /\ Append(q, d)[Len(q) + 1] = d
  OBVIOUS
<1>3. \A i \in DOMAIN Append(q, d) : i \in DOMAIN q \/ i = Len(q) + 1
  OBVIOUS
<1> QED
  BY <1>1, <1>2, <1>3 DEF Queued

LEMMA QueuedTail ==
  ASSUME NEW q \in Seq(Day), q # <<>>
  PROVE  /\ Tail(q) \in Seq(Day) /\ Head(q) \in Day
         /\ Len(Tail(q)) = Len(q) - 1
         /\ Queued(q) = Queued(Tail(q)) \cup {Head(q)}
<1>1. /\ Tail(q) \in Seq(Day) /\ Head(q) \in Day /\ Len(Tail(q)) = Len(q) - 1
  OBVIOUS
<1>2. \A i \in DOMAIN Tail(q) : i + 1 \in DOMAIN q /\ Tail(q)[i] = q[i + 1]
  OBVIOUS
<1>3. 1 \in DOMAIN q /\ Head(q) = q[1]
  OBVIOUS
<1>4. \A i \in DOMAIN q : i = 1 \/ (i - 1 \in DOMAIN Tail(q) /\ q[i] = Tail(q)[i - 1])
  OBVIOUS
<1>5. Queued(Tail(q)) \cup {Head(q)} \subseteq Queued(q)
  BY <1>2, <1>3 DEF Queued
<1>6. Queued(q) \subseteq Queued(Tail(q)) \cup {Head(q)}
  BY <1>3, <1>4 DEF Queued
<1> QED
  BY <1>1, <1>5, <1>6

\* Handing the current file over, to a queue with room or to nobody.
LEMMA HandOverFacts ==
  ASSUME TypeOK, HandOver, file \in Day
  PROVE  /\ archiveCh' \in Seq(Day) /\ Len(archiveCh') <= ArchiveQueue
         /\ handed' \subseteq handed \cup {file}
         /\ handed' \subseteq Day
         /\ \/ UNCHANGED <<archiveCh, handed>>
            \/ /\ Queued(archiveCh') = Queued(archiveCh) \cup {file}
               /\ handed' = handed \cup {file}
<1> USE LogAssumption DEF TypeOK
<1>1. CASE Len(archiveCh) < ArchiveQueue
  <2>1. archiveCh' = Append(archiveCh, file) /\ handed' = handed \cup {file}
    BY <1>1 DEF HandOver
  <2>2. Queued(archiveCh') = Queued(archiveCh) \cup {file}
    BY <2>1, QueuedAppend
  <2>3. archiveCh' \in Seq(Day) /\ Len(archiveCh') = Len(archiveCh) + 1
    BY <2>1
  <2> QED
    BY <1>1, <2>1, <2>2, <2>3
<1>2. CASE ~(Len(archiveCh) < ArchiveQueue)
  BY <1>2 DEF HandOver
<1> QED
  BY <1>1, <1>2

\* What a sequence has, it has when it grows.
LEMMA InConcat ==
  ASSUME NEW a \in Seq(Line), NEW b \in Seq(Line), NEW v,
         (\E i \in DOMAIN a : a[i] = v) \/ (\E i \in DOMAIN b : b[i] = v)
  PROVE  \E i \in DOMAIN (a \o b) : (a \o b)[i] = v
<1>1. ASSUME NEW i \in DOMAIN a, a[i] = v
      PROVE  i \in DOMAIN (a \o b) /\ (a \o b)[i] = v
  BY <1>1
<1>2. ASSUME NEW i \in DOMAIN b, b[i] = v
      PROVE  Len(a) + i \in DOMAIN (a \o b) /\ (a \o b)[Len(a) + i] = v
  BY <1>2
<1> QED
  BY <1>1, <1>2

\* Lines leave the writer, for the file or, on an error, some of them not.
LEMMA LeaveFacts ==
  ASSUME TypeOK, LostOnlyToErrors, NEW s \in Seq(Line), out' = out \o s,
         UNCHANGED <<lost, broken>> \/ LoseTail(s)
  PROVE  /\ lost' \subseteq Line \X FileName /\ broken' \subseteq FileName
         /\ broken \subseteq broken'
         /\ LoseTail(s) => file \in broken'
         /\ \A x \in lost' : x[2] \in broken' /\ \E i \in DOMAIN out' : out'[i] = x[1]
<1>1. /\ out \in Seq(Line) /\ file \in FileName /\ lost \subseteq Line \X FileName
      /\ broken \subseteq FileName
      /\ \A x \in lost : x[2] \in broken /\ \E i \in DOMAIN out : out[i] = x[1]
  BY DEF TypeOK, LostOnlyToErrors
<1>2. ASSUME NEW x \in lost
      PROVE  \E i \in DOMAIN out' : out'[i] = x[1]
  <2>1. \E i \in DOMAIN out : out[i] = x[1]
    BY <1>1
  <2>2. \E i \in DOMAIN (out \o s) : (out \o s)[i] = x[1]
    BY ONLY <1>1, <2>1, s \in Seq(Line), InConcat
  <2> QED
    BY <2>2
<1>3. CASE UNCHANGED <<lost, broken>> /\ ~LoseTail(s)
  BY <1>1, <1>2, <1>3
<1>4. CASE LoseTail(s)
  <2>1. PICK k \in DOMAIN s : lost' = lost \cup {<<s[i], file>> : i \in k .. Len(s)}
    BY <1>4 DEF LoseTail
  <2>2. broken' = broken \cup {file}
    BY <1>4 DEF LoseTail
  <2>3. \A i \in k .. Len(s) : i \in DOMAIN s /\ s[i] \in Line
    BY <2>1
  <2>4. ASSUME NEW i \in k .. Len(s)
        PROVE  \E j \in DOMAIN out' : out'[j] = s[i]
    <3>1. \E j \in DOMAIN s : s[j] = s[i]
      BY <2>3
    <3>2. \E j \in DOMAIN (out \o s) : (out \o s)[j] = s[i]
      BY ONLY <1>1, <3>1, s \in Seq(Line), InConcat
    <3> QED
      BY <3>2
  <2>5. ASSUME NEW x \in lost'
        PROVE  /\ x \in Line \X FileName /\ x[2] \in broken'
               /\ \E i \in DOMAIN out' : out'[i] = x[1]
    <3>1. CASE x \in lost
      BY <1>1, <1>2, <2>2, <3>1
    <3>2. CASE x \notin lost
      <4>1. PICK i \in k .. Len(s) : x = <<s[i], file>>
        BY <2>1, <3>2
      <4> QED
        BY <1>1, <2>2, <2>3, <2>4, <4>1
    <3> QED
      BY <3>1, <3>2
  <2> QED
    BY <1>1, <2>2, <2>5
<1> QED
  BY <1>3, <1>4

\* A line for a writer that takes none any more.
LEMMA LoseLineFacts ==
  ASSUME TypeOK, LostOnlyToErrors, NEW l \in Line, LoseLine(l),
         failed, file \in broken, buf = <<>>
  PROVE  /\ lost' \subseteq Line \X FileName /\ broken' \subseteq FileName
         /\ failed' \in BOOLEAN /\ LostOnlyToErrors'
<1>1. /\ out \in Seq(Line) /\ <<l>> \in Seq(Line)
      /\ file \in FileName /\ lost \subseteq Line \X FileName
      /\ \A x \in lost : x[2] \in broken /\ \E i \in DOMAIN out : out[i] = x[1]
  BY DEF TypeOK, LostOnlyToErrors
<1>2. /\ out' = out \o <<l>> /\ lost' = lost \cup {<<l, file>>}
      /\ UNCHANGED <<file, open, buf, failed, broken>>
  BY <1>1 DEF LoseLine
<1>3. ASSUME NEW x \in lost'
      PROVE  /\ x \in Line \X FileName /\ x[2] \in broken
             /\ \E i \in DOMAIN out' : out'[i] = x[1]
  <2>1. 1 \in DOMAIN <<l>> /\ <<l>>[1] = l
    OBVIOUS
  <2>2. \/ \E i \in DOMAIN out : out[i] = x[1]
        \/ \E i \in DOMAIN <<l>> : <<l>>[i] = x[1]
    BY <1>1, <1>2, <2>1
  <2>3. \E i \in DOMAIN (out \o <<l>>) : (out \o <<l>>)[i] = x[1]
    BY ONLY <1>1, <2>2, InConcat
  <2> QED
    BY <1>1, <1>2, <2>3
<1>4. lost' \subseteq Line \X FileName /\ broken' \subseteq FileName /\ failed' \in BOOLEAN
  BY <1>2, <1>3 DEF TypeOK
<1>5. LostOnlyToErrors'
  <2>1. \A x \in lost' : x[2] \in broken' /\ \E i \in DOMAIN out' : out'[i] = x[1]
    BY <1>2, <1>3
  <2>2. failed' /\ buf' = <<>> /\ file' \in broken'
    BY <1>2
  <2> QED
    BY <2>1, <2>2 DEF LostOnlyToErrors
<1> QED
  BY <1>4, <1>5

\* What one line taken from the channel does to the writer.
LEMMA TakeLineFacts ==
  ASSUME IInv, TakeLine
  PROVE  /\ ch' \in Seq(Line) /\ Len(ch') <= ChSize
         /\ buf' \in Seq(Line) /\ Len(buf') <= BufCap
         /\ out' \in Seq(Line) /\ Len(out) <= Len(out')
         /\ out' \o buf' \o ch' = out \o buf \o ch
         /\ file' \in FileName /\ open' \in BOOLEAN
         /\ archiveCh' \in Seq(Day) /\ Len(archiveCh') <= ArchiveQueue
         /\ handed' \subseteq Day /\ stuck' \subseteq Day
         /\ lost' \subseteq Line \X FileName /\ broken' \subseteq FileName
         /\ failed' \in BOOLEAN /\ LostOnlyToErrors'
         /\ today' = today => FileInv'
         /\ \/ UNCHANGED <<archiveCh, handed>>
            \/ \E d \in Day : /\ Queued(archiveCh') = Queued(archiveCh) \cup {d}
                              /\ handed' = handed \cup {d}
<1> USE LogAssumption DEF IInv, TypeOK, FileName
<1> DEFINE l == Head(ch)
<1>1. ch # <<>> /\ ch' = Tail(ch)
  BY DEF TakeLine
<1>2. l \in Line /\ ch' \in Seq(Line) /\ Len(ch') <= ChSize
  BY <1>1, MoveHead
<1>3. /\ out \o Append(buf, l) \o ch' = out \o buf \o ch
      /\ (out \o buf) \o <<l>> \o ch' = out \o buf \o ch
      /\ Append(out \o buf, l) \o <<>> \o ch' = out \o buf \o ch
  BY <1>1, MoveOne
<1>4. out \o buf \in Seq(Line) /\ Len(out) <= Len(out \o buf)
  BY ConcatFacts
<1>8. /\ Append(buf, l) \in Seq(Line)
      /\ Append(out \o buf, l) = out \o Append(buf, l)
  <2> DEFINE one == <<l>>
  <2>1. buf \in Seq(Line) /\ out \in Seq(Line) /\ one \in Seq(Line)
    BY <1>2
  <2>2. Append(buf, l) = buf \o one /\ Append(buf, l) \in Seq(Line)
    BY <1>2, <2>1, ConcatFacts
  <2>3. Append(out \o buf, l) = (out \o buf) \o one
    BY <1>2, <1>4, ConcatFacts
  <2> HIDE DEF one
  <2>4. (out \o buf) \o one = out \o (buf \o one)
    BY ONLY <2>1, ConcatAssociative
  <2> QED
    BY <2>2, <2>3, <2>4
<1>9. /\ failed => buf = <<>> /\ file \in broken
      /\ ~open => failed
      /\ \A x \in lost : x[2] \in broken /\ \E i \in DOMAIN out : out[i] = x[1]
  BY DEF LostOnlyToErrors
<1>5. CASE LoseLine(l) /\ failed
  <2>1. buf = <<>> /\ buf' = <<>>
    BY <1>5, <1>9 DEF LoseLine
  <2>2. out' = Append(out, l) /\ out' \in Seq(Line) /\ Len(out) <= Len(out')
    BY <1>2, <1>5 DEF LoseLine
  <2>3. out' \o buf' \o ch' = out \o buf \o ch
    <3>1. out \o buf = out
      BY <2>1, ConcatEmptySeq
    <3> QED
      BY <1>3, <2>1, <2>2, <3>1
  <2>4. today' = today => FileInv'
    BY <1>5 DEF LoseLine, FileInv
  <2>5. /\ lost' \subseteq Line \X FileName /\ broken' \subseteq FileName
        /\ failed' \in BOOLEAN /\ LostOnlyToErrors'
    BY <1>2, <1>5, <1>9, LoseLineFacts
  <2>6. UNCHANGED <<file, open, buf, archiveCh, handed, stuck>>
    BY <1>5 DEF LoseLine
  <2> QED
    BY <1>2, <2>2, <2>3, <2>4, <2>5, <2>6
<1>6. CASE WriteSameDay(l) /\ ~failed
  <2>0. open /\ UNCHANGED <<file, open, archiveCh, handed, stuck>>
    BY <1>6 DEF WriteSameDay, FileInv
  <2>1. CASE Len(buf) < BufCap /\ buf' = Append(buf, l) /\ UNCHANGED <<out, writeVars>>
    <3>1. buf' \in Seq(Line) /\ Len(buf') <= BufCap
      BY <1>2, <2>1
    <3>2. out' \o buf' \o ch' = out \o buf \o ch
      BY <1>3, <2>1
    <3>3. today' = today => FileInv'
      BY <1>6, <2>0 DEF WriteSameDay, FileInv
    <3>4. out' \in Seq(Line) /\ Len(out) <= Len(out')
      BY <2>1
    <3>5. /\ lost' \subseteq Line \X FileName /\ broken' \subseteq FileName
          /\ failed' \in BOOLEAN /\ LostOnlyToErrors'
      BY <1>6, <1>9, <2>0, <2>1 DEF writeVars, LostOnlyToErrors
    <3> QED
      BY <1>2, <2>0, <3>1, <3>2, <3>3, <3>4, <3>5
  <2>2. CASE out' = out \o buf /\ buf' = <<l>> /\ UNCHANGED writeVars
    <3>1. buf' \in Seq(Line) /\ Len(buf') <= BufCap
      BY <1>2, <2>2
    <3>2. out' \o buf' \o ch' = out \o buf \o ch
      BY <1>3, <2>2
    <3>3. today' = today => FileInv'
      BY <1>6, <2>0 DEF WriteSameDay, FileInv
    <3>4. /\ lost' \subseteq Line \X FileName /\ broken' \subseteq FileName
          /\ \A x \in lost' : x[2] \in broken' /\ \E i \in DOMAIN out' : out'[i] = x[1]
      BY <2>2, LeaveFacts DEF writeVars
    <3>5. failed' = FALSE /\ open'
      BY <1>6, <2>0, <2>2 DEF writeVars
    <3>6. LostOnlyToErrors'
      BY <3>4, <3>5 DEF LostOnlyToErrors
    <3> QED
      BY <1>2, <1>4, <2>0, <2>2, <3>1, <3>2, <3>3, <3>4, <3>5, <3>6
  <2>3. CASE /\ out' = Append(out \o buf, l) /\ buf' = <<>>
             /\ LoseTail(Append(buf, l)) /\ failed' = TRUE
    <3>1. buf' \in Seq(Line) /\ Len(buf') <= BufCap
      <4>1. buf' = <<>>
        BY <2>3
      <4> QED
        BY ONLY <4>1, LogAssumption
    <3>2. out' \o buf' \o ch' = out \o buf \o ch
      BY <1>3, <2>3
    <3>3. today' = today => FileInv'
      BY <1>6, <2>0, <2>3 DEF WriteSameDay, FileInv
    <3>4. /\ lost' \subseteq Line \X FileName /\ broken' \subseteq FileName
          /\ file \in broken'
          /\ \A x \in lost' : x[2] \in broken' /\ \E i \in DOMAIN out' : out'[i] = x[1]
      BY <1>8, <2>3, LeaveFacts
    <3>5. failed' = TRUE /\ open' /\ file' = file
      BY <2>0, <2>3
    <3>6. LostOnlyToErrors'
      BY <2>3, <3>4, <3>5 DEF LostOnlyToErrors
    <3>7. out' \in Seq(Line) /\ Len(out) <= Len(out')
      BY <1>2, <1>4, <2>3
    <3> QED
      BY <1>2, <2>0, <3>1, <3>2, <3>3, <3>4, <3>5, <3>6, <3>7
  <2> QED
    BY <1>6, <2>1, <2>2, <2>3 DEF WriteSameDay
<1>7. CASE Rotate(l)
  <2>1. file \in Day /\ file < today
    BY <1>7 DEF Rotate, FileInv, NoFile, Day
  <2>2. HandOver
    BY <1>7 DEF Rotate
  <2>3. /\ archiveCh' \in Seq(Day) /\ Len(archiveCh') <= ArchiveQueue
        /\ handed' \subseteq handed \cup {file} /\ handed' \subseteq Day
        /\ \/ UNCHANGED <<archiveCh, handed>>
           \/ /\ Queued(archiveCh') = Queued(archiveCh) \cup {file}
              /\ handed' = handed \cup {file}
    BY <2>1, <2>2, HandOverFacts
  <2>4. CASE /\ file' = today /\ open' = TRUE /\ stuck' = stuck
             /\ buf' = <<l>> /\ out' = out \o buf /\ failed' = FALSE
             /\ UNCHANGED <<lost, broken>> \/ LoseTail(buf)
    <3>1. buf' \in Seq(Line) /\ Len(buf') <= BufCap
      BY <1>2, <2>4
    <3>2. out' \o buf' \o ch' = out \o buf \o ch
      BY <1>3, <2>4
    <3>3. today' = today => FileInv'
      BY <2>1, <2>3, <2>4 DEF FileInv, Day
    <3>4. /\ lost' \subseteq Line \X FileName /\ broken' \subseteq FileName
          /\ \A x \in lost' : x[2] \in broken' /\ \E i \in DOMAIN out' : out'[i] = x[1]
      BY <2>4, LeaveFacts
    <3>5. LostOnlyToErrors'
      BY <2>4, <3>4 DEF LostOnlyToErrors
    <3> QED
      BY <1>2, <1>4, <2>1, <2>3, <2>4, <3>1, <3>2, <3>3, <3>4, <3>5
  <2>5. CASE /\ file' = file /\ open' = FALSE /\ stuck' = stuck \cup {file}
             /\ buf' = <<>> /\ out' = Append(out \o buf, l)
             /\ LoseTail(Append(buf, l)) /\ failed' = TRUE
    <3>1. out' \in Seq(Line) /\ Len(out') = Len(out \o buf) + 1
      BY <1>2, <1>4, <2>5
    <3>2. out' \o buf' \o ch' = out \o buf \o ch
      BY <1>3, <2>5
    <3>3. today' = today => FileInv'
      BY <2>1, <2>3, <2>5 DEF FileInv, Day
    <3>4. Len(out) <= Len(out')
      BY <1>4, <3>1
    <3>5. file' \in FileName /\ open' \in BOOLEAN /\ stuck' \subseteq Day
      BY <2>1, <2>5
    <3>6. buf' \in Seq(Line) /\ Len(buf') <= BufCap
      <4>1. buf' = <<>>
        BY <2>5
      <4> QED
        BY ONLY <4>1, LogAssumption
    <3>7. /\ lost' \subseteq Line \X FileName /\ broken' \subseteq FileName
          /\ file \in broken'
          /\ \A x \in lost' : x[2] \in broken' /\ \E i \in DOMAIN out' : out'[i] = x[1]
      BY <1>8, <2>5, LeaveFacts
    <3>8. LostOnlyToErrors' /\ failed' \in BOOLEAN
      BY <2>5, <3>7 DEF LostOnlyToErrors
    <3> QED
      BY <1>2, <2>1, <2>3, <3>1, <3>2, <3>3, <3>4, <3>5, <3>6, <3>7, <3>8
  <2> QED
    BY <1>7, <2>4, <2>5 DEF Rotate, OpensToday
<1>10. CASE WriteNowhere(l)
  <2>1. failed /\ LoseLine(l)
    BY <1>9, <1>10 DEF WriteNowhere, FileInv, NoFile, Day
  <2> QED
    BY <1>5, <2>1
<1>11. CASE WriteSameDay(l) /\ failed
  BY <1>5, <1>11 DEF WriteSameDay
<1> QED
  BY <1>6, <1>7, <1>10, <1>11 DEF TakeLine
------------------------------------------------------------------------------
(***************************************************************************)
(* Init and every action keep IInv.                                        *)
(***************************************************************************)
LEMMA InitInv == Init => IInv
<1> SUFFICES ASSUME Init PROVE IInv
  OBVIOUS
<1> USE LogAssumption DEF Init
<1>1. TypeOK
  <2>1. /\ <<>> \in Seq(Line) /\ <<>> \in Seq(Day) /\ Len(<<>>) = 0
        /\ 0 <= ChSize /\ 0 <= BufCap /\ 0 <= ArchiveQueue
    OBVIOUS
  <2>2. today \in Day /\ file \in FileName /\ open \in BOOLEAN
    <3>1. 1 \in Day
      BY DEF Day
    <3> QED
      BY <3>1 DEF FileName
  <2>3. /\ produced \in [Producer -> 0 .. MaxLines]
        /\ holding \in [ArchiveWorker -> FileName]
    BY DEF FileName
  <2>4. failed \in BOOLEAN /\ broken \subseteq FileName
    BY DEF FileName
  <2> QED
    BY <2>1, <2>2, <2>3, <2>4 DEF TypeOK
<1>2. FileInv
  BY DEF FileInv, Day, NoFile
<1>3. QueueInv
  BY DEF QueueInv, NoFile
<1>4. InOrderOnce
  BY ConcatFacts DEF InOrderOnce
<1> QED
  BY <1>1, <1>2, <1>3, <1>4
     DEF IInv, LostOnlyToErrors, FlushedByStop, ClosedAfterSender, StopInv, WaitInv

LEMMA NewDayInv == IInv /\ NewDay => IInv'
<1> SUFFICES ASSUME IInv, NewDay PROVE IInv'
  OBVIOUS
<1> USE LogAssumption DEF NewDay, IInv, prodVars, runVars, writeVars, archVars, stopVars
<1>1. TypeOK'
  BY DEF TypeOK, Day
<1>2. FileInv'
  BY DEF FileInv, TypeOK, Day, FileName, NoFile
<1>3. QueueInv'
  BY DEF QueueInv
<1> QED
  BY <1>1, <1>2, <1>3
     DEF InOrderOnce, LostOnlyToErrors, FlushedByStop, ClosedAfterSender, StopInv, WaitInv

\* A line enters the channel behind all the others.
LEMMA EnterFacts ==
  ASSUME IInv, NEW p \in Producer, NEW n \in 1 .. MaxLines,
         Len(ch) < ChSize, Enter(p, n), UNCHANGED <<out, buf>>
  PROVE  /\ ch' \in Seq(Line) /\ Len(ch') <= ChSize
         /\ accepted' \in Seq(Line) /\ Len(accepted) <= Len(accepted')
         /\ InOrderOnce'
<1> USE LogAssumption DEF IInv, TypeOK
<1> DEFINE l == <<p, n>>
<1>1. l \in Line
  BY DEF Line
<1>2. ch' = Append(ch, l) /\ accepted' = Append(accepted, l)
  BY DEF Enter
<1>3. /\ ch' = ch \o <<l>> /\ ch' \in Seq(Line) /\ Len(ch') = Len(ch) + 1
      /\ accepted' = accepted \o <<l>> /\ accepted' \in Seq(Line)
      /\ Len(accepted') = Len(accepted) + 1
  BY <1>1, <1>2, ConcatFacts
<1>4. out \o buf \in Seq(Line) /\ <<l>> \in Seq(Line)
  BY <1>1, ConcatFacts
<1>5. ((out \o buf) \o ch) \o <<l>> = (out \o buf) \o (ch \o <<l>>)
  <2> DEFINE ob == out \o buf  one == <<l>>
  <2>1. ob \in Seq(Line) /\ one \in Seq(Line) /\ ch \in Seq(Line)
    BY <1>4
  <2> HIDE DEF ob, one
  <2>2. (ob \o ch) \o one = ob \o (ch \o one)
    BY ONLY <2>1, ConcatAssociative
  <2> QED
    BY <2>2 DEF ob, one
<1>6. accepted' = out \o buf \o ch'
  BY <1>3, <1>5 DEF InOrderOnce
<1>7. InOrderOnce'
  BY <1>6 DEF InOrderOnce
<1>8. Len(ch') <= ChSize /\ Len(accepted) <= Len(accepted')
  BY <1>3
<1> QED
  BY <1>3, <1>7, <1>8

\* A step that leaves the files and the archive workers alone.
LEMMA FilesAlone ==
  ASSUME IInv, UNCHANGED <<today, file, open, buf, out, writeVars, archiveCh,
                           handed, archVars, closed>>
  PROVE  FileInv' /\ QueueInv' /\ LostOnlyToErrors'
<1>1. FileInv'
  BY DEF IInv, FileInv
<1>2. QueueInv'
  BY DEF IInv, QueueInv, archVars
<1>3. LostOnlyToErrors'
  BY DEF IInv, LostOnlyToErrors, writeVars
<1> QED
  BY <1>1, <1>2, <1>3

LEMMA ProducerInv == \A p \in Producer : IInv /\ ProducerStep(p) => IInv'
<1> SUFFICES ASSUME NEW p \in Producer, IInv, ProducerStep(p) PROVE IInv'
  OBVIOUS
<1> USE LogAssumption DEF IInv, prodVars, runVars, writeVars, archVars, stopVars
<1>0. UNCHANGED <<today, runVars, archiveCh, handed, archVars, stopVars>>
  BY DEF ProducerStep, WriteLine, Unblock, Timeout
<1>1. FileInv' /\ QueueInv' /\ LostOnlyToErrors'
  BY <1>0, FilesAlone
<1> DEFINE ProducersOK == /\ produced' \in [Producer -> 0 .. MaxLines]
                          /\ waiting' \subseteq Producer /\ dropped' \in Nat
                          /\ WaitInv'
<1>2. CASE UNCHANGED <<ch, accepted>> /\ ProducersOK
  <2>1. TypeOK'
    BY <1>0, <1>2 DEF TypeOK
  <2> QED
    BY <1>0, <1>1, <1>2, <2>1
       DEF InOrderOnce, FlushedByStop, ClosedAfterSender, StopInv
<1>3. CASE /\ \E n \in 1 .. MaxLines : Enter(p, n)
           /\ Len(ch) < ChSize
           /\ ProducersOK
  <2>1. /\ ch' \in Seq(Line) /\ Len(ch') <= ChSize
        /\ accepted' \in Seq(Line) /\ Len(accepted) <= Len(accepted')
        /\ InOrderOnce'
    BY <1>0, <1>3, EnterFacts
  <2>2. TypeOK'
    BY <1>0, <1>3, <2>1 DEF TypeOK
  <2>3. StopInv'
    BY <1>0, <2>1 DEF StopInv, TypeOK
  <2> QED
    BY <1>0, <1>1, <1>3, <2>1, <2>2, <2>3 DEF FlushedByStop, ClosedAfterSender
<1>4. CASE WriteLine(p)
  <2>1. /\ produced' \in [Producer -> 0 .. MaxLines]
        /\ produced'[p] \in 1 .. MaxLines
        /\ \A q \in Producer \ {p} : produced'[q] = produced[q]
    BY <1>4 DEF WriteLine, TypeOK
  <2>2. /\ waiting' \subseteq Producer /\ dropped' \in Nat
        /\ waiting' \subseteq waiting \cup {p}
    BY <1>4 DEF WriteLine, TypeOK
  <2>3. ProducersOK
    BY <2>1, <2>2 DEF WaitInv
  <2> QED
    BY <1>2, <1>3, <1>4, <2>1, <2>3 DEF WriteLine
<1>5. CASE Unblock(p)
  <2>1. produced[p] \in 1 .. MaxLines
    BY <1>5 DEF Unblock, TypeOK, WaitInv
  <2>2. ProducersOK
    BY <1>5 DEF Unblock, TypeOK, WaitInv
  <2> QED
    BY <1>3, <1>5, <2>1, <2>2 DEF Unblock
<1>6. CASE Timeout(p)
  <2>1. ProducersOK
    BY <1>6 DEF Timeout, TypeOK, WaitInv
  <2> QED
    BY <1>2, <1>6, <2>1 DEF Timeout
<1> QED
  BY <1>4, <1>5, <1>6 DEF ProducerStep

LEMMA TakeLineInv ==
  ASSUME IInv, TakeLine, run # "exited",
         run' = run \/ run' = "drain", UNCHANGED othersInRun
  PROVE  IInv'
<1> USE LogAssumption DEF othersInRun, prodVars, archVars, stopVars
<1>1. /\ ch' \in Seq(Line) /\ Len(ch') <= ChSize
      /\ buf' \in Seq(Line) /\ Len(buf') <= BufCap
      /\ out' \in Seq(Line)
      /\ out' \o buf' \o ch' = out \o buf \o ch
      /\ file' \in FileName /\ open' \in BOOLEAN
      /\ archiveCh' \in Seq(Day) /\ Len(archiveCh') <= ArchiveQueue
      /\ handed' \subseteq Day /\ stuck' \subseteq Day
      /\ lost' \subseteq Line \X FileName /\ broken' \subseteq FileName
      /\ failed' \in BOOLEAN /\ LostOnlyToErrors'
      /\ FileInv'
      /\ \/ UNCHANGED <<archiveCh, handed>>
         \/ \E d \in Day : /\ Queued(archiveCh') = Queued(archiveCh) \cup {d}
                           /\ handed' = handed \cup {d}
  BY TakeLineFacts
<1>2. TypeOK'
  BY <1>1 DEF IInv, TypeOK
<1>3. InOrderOnce'
  BY <1>1 DEF IInv, InOrderOnce
<1>4. ~closed /\ exited = {}
  BY DEF IInv, ClosedAfterSender, QueueInv
<1>5. QueueInv'
  <2>1. /\ handed = archived \cup Held \cup Queued(archiveCh)
        /\ Held' = Held
    BY DEF IInv, QueueInv, Held, Queued
  <2>2. handed' = archived' \cup Held' \cup Queued(archiveCh')
    BY <1>1, <2>1
  <2> QED
    BY <1>4, <2>2 DEF QueueInv, Held, Queued
<1>6. FlushedByStop' /\ ClosedAfterSender'
  BY <1>4 DEF FlushedByStop, ClosedAfterSender
<1>7. StopInv' /\ WaitInv'
  BY DEF IInv, StopInv, WaitInv
<1> QED
  BY <1>1, <1>2, <1>3, <1>5, <1>6, <1>7 DEF IInv

\* Flushing moves no line out of its order.
LEMMA FlushFacts ==
  ASSUME IInv, FlushBuf, UNCHANGED <<ch, accepted, today, file, open, handed>>
  PROVE  /\ buf' = <<>> /\ buf' \in Seq(Line) /\ Len(buf') <= BufCap
         /\ out' \in Seq(Line)
         /\ InOrderOnce'
         /\ ch = <<>> => Len(out') = Len(accepted)
         /\ lost' \subseteq Line \X FileName /\ broken' \subseteq FileName
         /\ failed' \in BOOLEAN /\ LostOnlyToErrors'
         /\ FileInv'
<1>1. /\ out' = out \o buf /\ buf' = <<>>
      /\ UNCHANGED writeVars \/ (LoseTail(buf) /\ failed' = TRUE)
  BY DEF FlushBuf
<1>2. /\ out \in Seq(Line) /\ buf \in Seq(Line) /\ ch \in Seq(Line)
      /\ accepted = out \o buf \o ch
  BY DEF IInv, TypeOK, InOrderOnce
<1>3. out' \in Seq(Line)
  BY <1>1, <1>2, ConcatFacts
<1>4. out' \o <<>> = out'
  BY <1>3, ConcatEmptySeq
<1>5. InOrderOnce'
  BY <1>1, <1>2, <1>4 DEF InOrderOnce
<1>6. ch = <<>> => Len(out') = Len(accepted)
  BY <1>1, <1>2, <1>4
<1>7. buf' \in Seq(Line) /\ Len(buf') <= BufCap
  BY ONLY <1>1, LogAssumption
<1>8. FileInv'
  BY <1>1 DEF IInv, FileInv
<1>9. /\ lost' \subseteq Line \X FileName /\ broken' \subseteq FileName
      /\ broken \subseteq broken'
      /\ LoseTail(buf) => file \in broken'
      /\ \A x \in lost' : x[2] \in broken' /\ \E i \in DOMAIN out' : out'[i] = x[1]
  <2>1. UNCHANGED <<lost, broken>> \/ LoseTail(buf)
    BY <1>1 DEF writeVars
  <2> QED
    BY <1>1, <1>2, <2>1, LeaveFacts DEF IInv
<1>10. LostOnlyToErrors' /\ failed' \in BOOLEAN
  <2>1. /\ failed \in BOOLEAN
        /\ failed => buf = <<>> /\ file \in broken
        /\ ~open => failed
    BY DEF IInv, TypeOK, LostOnlyToErrors
  <2>2. CASE UNCHANGED writeVars
    BY <1>1, <1>9, <2>1, <2>2 DEF LostOnlyToErrors, writeVars
  <2>3. CASE LoseTail(buf) /\ failed' = TRUE
    <3>1. failed' /\ buf' = <<>> /\ file' \in broken' /\ failed' \in BOOLEAN
      BY <1>1, <1>9, <2>3
    <3> QED
      BY <1>9, <3>1 DEF LostOnlyToErrors
  <2> QED
    BY <1>1, <2>2, <2>3
<1> QED
  BY <1>1, <1>3, <1>5, <1>6, <1>7, <1>8, <1>9, <1>10

LEMMA RunInv == IInv /\ RunStep => IInv'
<1> SUFFICES ASSUME IInv, RunStep PROVE IInv'
  OBVIOUS
<1> USE DEF othersInRun, prodVars, archVars, stopVars
<1>1. CASE RunLine
  BY <1>1, TakeLineInv DEF RunLine
<1>2. CASE RunFinalLine
  BY <1>2, TakeLineInv DEF RunFinalLine
<1>3. CASE RunDrained \/ RunDone
  <2>1. /\ run' \in {"select", "final"} /\ run # "exited"
        /\ run' = "final" => stop # "idle"
    BY <1>3 DEF RunDrained, RunDone
  <2>2. UNCHANGED <<othersInRun, ch, file, open, buf, out, writeVars, archiveCh,
                    handed, stuck>>
    BY <1>3 DEF RunDrained, RunDone
  <2>3. FileInv' /\ QueueInv' /\ LostOnlyToErrors'
    BY <2>2, FilesAlone
  <2>4. TypeOK'
    BY <2>1, <2>2 DEF IInv, TypeOK, writeVars
  <2> QED
    BY <2>1, <2>2, <2>3, <2>4
       DEF IInv, InOrderOnce, FlushedByStop, ClosedAfterSender, StopInv, WaitInv
<1>4. CASE RunTick \/ RunExit
  <2>1. /\ FlushBuf
        /\ UNCHANGED <<othersInRun, ch, file, open, archiveCh, handed, stuck>>
        /\ run' \in {"select", "exited"} /\ run # "exited"
        /\ run' = "exited" => run = "final" /\ ch = <<>>
    BY <1>4 DEF RunTick, RunExit
  <2>2. /\ buf' = <<>> /\ buf' \in Seq(Line) /\ Len(buf') <= BufCap
        /\ out' \in Seq(Line)
        /\ InOrderOnce'
        /\ ch = <<>> => Len(out') = Len(accepted)
        /\ lost' \subseteq Line \X FileName /\ broken' \subseteq FileName
        /\ failed' \in BOOLEAN /\ LostOnlyToErrors'
        /\ FileInv'
    BY <2>1, FlushFacts
  <2>3. TypeOK'
    BY <2>1, <2>2 DEF IInv, TypeOK
  <2>4. QueueInv'
    BY <2>1 DEF IInv, QueueInv
  <2>5. FlushedByStop'
    <3>1. mark' = mark /\ mark <= Len(accepted)
      BY <2>1 DEF IInv, StopInv
    <3> QED
      BY <2>1, <2>2, <3>1 DEF FlushedByStop
  <2>6. ClosedAfterSender' /\ StopInv' /\ WaitInv'
    BY <2>1 DEF IInv, ClosedAfterSender, StopInv, WaitInv
  <2> QED
    BY <2>2, <2>3, <2>4, <2>5, <2>6 DEF IInv
<1> QED
  BY <1>1, <1>2, <1>3, <1>4 DEF RunStep

LEMMA ArchiveInv == \A a \in ArchiveWorker : IInv /\ ArchiveStep(a) => IInv'
<1> SUFFICES ASSUME NEW a \in ArchiveWorker, IInv, ArchiveStep(a) PROVE IInv'
  OBVIOUS
<1> USE DEF othersInArchive, prodVars, runVars, writeVars, stopVars
<1>0. UNCHANGED othersInArchive
  BY DEF ArchiveStep, ArchiveTake, ArchiveDone, ArchiveExit
<1>1. /\ FileInv' /\ InOrderOnce' /\ FlushedByStop' /\ ClosedAfterSender'
      /\ WaitInv' /\ LostOnlyToErrors'
  BY <1>0 DEF IInv, FileInv, InOrderOnce, FlushedByStop, ClosedAfterSender, WaitInv,
              LostOnlyToErrors
<1>2. CASE ArchiveTake(a)
  <2>1. archiveCh \in Seq(Day) /\ archiveCh # <<>>
    BY <1>2 DEF ArchiveTake, IInv, TypeOK
  <2>2. /\ archiveCh' = Tail(archiveCh) /\ holding[a] = NoFile
        /\ holding' = [holding EXCEPT ![a] = Head(archiveCh)]
        /\ UNCHANGED <<exited, archived>>
    BY <1>2 DEF ArchiveTake
  <2>3. /\ archiveCh' \in Seq(Day) /\ Head(archiveCh) \in Day
        /\ Len(archiveCh') = Len(archiveCh) - 1
        /\ Queued(archiveCh) = Queued(archiveCh') \cup {Head(archiveCh)}
    BY <2>1, <2>2, QueuedTail
  <2>4. TypeOK'
    <3>1. holding' \in [ArchiveWorker -> FileName]
      BY <2>2, <2>3 DEF IInv, TypeOK, FileName
    <3>2. Len(archiveCh') <= ArchiveQueue
      BY <2>1, <2>3, LogAssumption DEF IInv, TypeOK
    <3> QED
      BY <1>0, <2>2, <2>3, <3>1, <3>2 DEF IInv, TypeOK
  <2>5. exited = {}
    BY <2>1 DEF IInv, QueueInv
  <2>6. Held' = Held \cup {Head(archiveCh)}
    <3>1. Head(archiveCh) # NoFile
      BY <2>3 DEF Day, NoFile
    <3>2. \A b \in ArchiveWorker :
            holding'[b] = IF b = a THEN Head(archiveCh) ELSE holding[b]
      BY <2>2 DEF IInv, TypeOK
    <3> QED
      BY <2>2, <3>1, <3>2 DEF Held
  <2>7. QueueInv'
    <3>1. handed = archived \cup Held \cup Queued(archiveCh)
      BY DEF IInv, QueueInv, Held, Queued
    <3>2. handed' = archived' \cup Held' \cup Queued(archiveCh')
      BY <1>0, <2>2, <2>3, <2>6, <3>1
    <3> QED
      BY <2>2, <2>5, <3>2 DEF QueueInv, Held, Queued
  <2>8. StopInv'
    BY <1>0, <2>2 DEF IInv, StopInv
  <2> QED
    BY <1>1, <2>4, <2>7, <2>8 DEF IInv
<1>3. CASE ArchiveDone(a)
  <2>1. /\ holding[a] # NoFile
        /\ archived' = archived \cup {holding[a]}
        /\ holding' = [holding EXCEPT ![a] = NoFile]
        /\ UNCHANGED <<archiveCh, exited>>
    BY <1>3 DEF ArchiveDone
  <2>2. \A b \in ArchiveWorker :
          holding'[b] = IF b = a THEN NoFile ELSE holding[b]
    BY <2>1 DEF IInv, TypeOK
  <2>3. TypeOK'
    <3>1. holding[a] \in Day
      BY <2>1 DEF IInv, TypeOK, FileName
    <3>2. holding' \in [ArchiveWorker -> FileName] /\ archived' \subseteq Day
      BY <2>1, <3>1 DEF IInv, TypeOK, FileName
    <3> QED
      BY <1>0, <2>1, <3>2 DEF IInv, TypeOK
  <2>4. archived' \cup Held' = archived \cup Held
    BY <2>1, <2>2 DEF Held
  <2>5. QueueInv'
    <3>1. /\ handed = (archived \cup Held) \cup Queued(archiveCh)
          /\ \A b \in exited : closed /\ archiveCh = <<>> /\ holding[b] = NoFile
      BY DEF IInv, QueueInv, Held, Queued
    <3>2. handed' = (archived' \cup Held') \cup Queued(archiveCh')
      BY <1>0, <2>1, <2>4, <3>1
    <3>3. \A b \in exited' : closed' /\ archiveCh' = <<>> /\ holding'[b] = NoFile
      BY <1>0, <2>1, <2>2, <3>1 DEF IInv, TypeOK
    <3> QED
      BY <3>2, <3>3 DEF QueueInv, Held, Queued
  <2>6. StopInv'
    BY <1>0, <2>1 DEF IInv, StopInv
  <2> QED
    BY <1>1, <2>3, <2>5, <2>6 DEF IInv
<1>4. CASE ArchiveExit(a)
  <2>1. /\ exited' = exited \cup {a} /\ closed /\ archiveCh = <<>>
        /\ holding[a] = NoFile /\ UNCHANGED <<archiveCh, holding, archived>>
    BY <1>4 DEF ArchiveExit
  <2>2. TypeOK'
    BY <1>0, <2>1 DEF IInv, TypeOK
  <2>3. QueueInv'
    BY <1>0, <2>1 DEF IInv, QueueInv
  <2>4. StopInv'
    BY <1>0, <2>1 DEF IInv, StopInv, TypeOK
  <2> QED
    BY <1>1, <2>2, <2>3, <2>4 DEF IInv
<1> QED
  BY <1>2, <1>3, <1>4 DEF ArchiveStep

LEMMA StopStepInv == IInv /\ (StopBegin \/ StopStep) => IInv'
<1> SUFFICES ASSUME IInv, StopBegin \/ StopStep PROVE IInv'
  OBVIOUS
<1> USE DEF othersInStop, prodVars, runVars, writeVars, archVars
<1>1. UNCHANGED othersInStop
  BY DEF StopBegin, StopStep, StopClose, StopReturn
<1>2. FileInv' /\ InOrderOnce' /\ WaitInv' /\ LostOnlyToErrors'
  BY <1>1 DEF IInv, FileInv, InOrderOnce, WaitInv, LostOnlyToErrors
<1>3. CASE StopBegin
  <2>1. /\ stop = "idle" /\ stop' = "await" /\ mark' = Len(accepted)
        /\ closed' = closed /\ run # "exited"
    BY <1>3 DEF StopBegin, IInv, StopInv
  <2>2. Len(accepted) \in Nat /\ Len(accepted) <= Len(accepted)
    BY DEF IInv, TypeOK
  <2>3. TypeOK'
    BY <1>1, <2>1, <2>2 DEF IInv, TypeOK
  <2>4. QueueInv' /\ ClosedAfterSender' /\ FlushedByStop'
    BY <1>1, <2>1 DEF IInv, QueueInv, ClosedAfterSender, FlushedByStop
  <2>5. StopInv'
    BY <1>1, <2>1, <2>2 DEF StopInv
  <2> QED
    BY <1>2, <2>3, <2>4, <2>5 DEF IInv
<1>4. CASE StopClose
  <2>1. /\ run = "exited" /\ closed' = TRUE /\ stop' = "wait" /\ mark' = mark
    BY <1>4 DEF StopClose
  <2>2. TypeOK'
    BY <1>1, <2>1 DEF IInv, TypeOK
  <2>3. QueueInv' /\ ClosedAfterSender' /\ FlushedByStop' /\ StopInv'
    BY <1>1, <2>1
       DEF IInv, QueueInv, ClosedAfterSender, FlushedByStop, StopInv
  <2> QED
    BY <1>2, <2>2, <2>3 DEF IInv
<1>5. CASE StopReturn
  <2>1. /\ stop = "wait" /\ stop' = "returned" /\ exited = ArchiveWorker
        /\ UNCHANGED <<closed, mark>>
    BY <1>5 DEF StopReturn
  <2>2. TypeOK'
    BY <1>1, <2>1 DEF IInv, TypeOK
  <2>3. QueueInv' /\ ClosedAfterSender' /\ FlushedByStop' /\ StopInv'
    BY <1>1, <2>1
       DEF IInv, QueueInv, ClosedAfterSender, FlushedByStop, StopInv
  <2> QED
    BY <1>2, <2>2, <2>3 DEF IInv
<1> QED
  BY <1>3, <1>4, <1>5 DEF StopStep

LEMMA NextInv == IInv /\ [Next]_vars => IInv'
<1> SUFFICES ASSUME IInv, [Next]_vars PROVE IInv'
  OBVIOUS
<1>1. CASE UNCHANGED vars
  <2>1. FileInv' /\ QueueInv' /\ LostOnlyToErrors'
    BY <1>1, FilesAlone DEF vars, runVars, stopVars
  <2>2. TypeOK'
    BY <1>1 DEF vars, prodVars, runVars, writeVars, archVars, stopVars, IInv, TypeOK
  <2> QED
    BY <1>1, <2>1, <2>2
       DEF vars, prodVars, runVars, writeVars, archVars, stopVars, IInv, InOrderOnce,
           FlushedByStop, ClosedAfterSender, StopInv, WaitInv
<1> QED
  BY <1>1, NewDayInv, ProducerInv, RunInv, ArchiveInv, StopStepInv DEF Next
------------------------------------------------------------------------------
(***************************************************************************)
(* What holds of every behaviour.                                          *)
(***************************************************************************)

\* Lines, files and channels of asyncWriter, for any producers, workers and
\* capacities: lines leave the writer once and in order, those accepted before
\* Stop by the time run has ended, and all but those of a file whose writing or
\* whose successor's opening failed have reached their file (logger.go:195-239).
THEOREM Invariance == Spec => []IInv
  BY InitInv, NextInv, PTL DEF Spec

\* Neither channel nor the buffer is ever beyond its capacity, and every
\* variable keeps its type (newAsyncWriter, writeLine, writeToBuf).
THEOREM TypeCorrect == Spec => []TypeOK
<1>1. IInv => TypeOK
  BY DEF IInv
<1> QED
  BY <1>1, Invariance, PTL

\* No accepted line is doubled, reordered or forgotten inside the writer,
\* whatever rotations, flushes, archive workers and Stop do in between.
THEOREM LinesKeepOrder == Spec => []InOrderOnce
<1>1. IInv => InOrderOnce
  BY DEF IInv
<1> QED
  BY <1>1, Invariance, PTL

\* A line that has left the writer is missing in its file only if the writing
\* of that file, or the opening of its successor, met an error: errors of one
\* day's file cost no line of another's (writeToBuf, flushBuf, openCurrent).
THEOREM LinesReachTheirFile == Spec => []LostOnlyToErrors
<1>1. IInv => LostOnlyToErrors
  BY DEF IInv
<1> QED
  BY <1>1, Invariance, PTL

\* When run has exited, everything accepted before Stop began has left the
\* writer.
THEOREM StopFlushes == Spec => []FlushedByStop
<1>1. IInv => FlushedByStop
  BY DEF IInv
<1> QED
  BY <1>1, Invariance, PTL

\* archiveCh is closed only after the goroutine that sends on it has returned.
THEOREM NoSendOnClosed == Spec => []ClosedAfterSender
<1>1. IInv => ClosedAfterSender
  BY DEF IInv
<1> QED
  BY <1>1, Invariance, PTL

\* Stop returns to a writer whose archive workers have done all their work.
THEOREM StopArchives == Spec => []ArchivedByStop
<1>1. IInv => ArchivedByStop
  <2> SUFFICES ASSUME IInv, stop = "returned"
               PROVE  /\ archived = handed
                      /\ \A a \in ArchiveWorker : holding[a] = NoFile
    BY DEF ArchivedByStop
  <2>1. exited = ArchiveWorker
    BY DEF IInv, StopInv
  <2>2. archiveCh = <<>> /\ \A a \in ArchiveWorker : holding[a] = NoFile
    BY <2>1, LogAssumption DEF IInv, QueueInv
  <2>3. handed = archived \cup ({holding[a] : a \in ArchiveWorker} \ {NoFile})
                  \cup {archiveCh[i] : i \in DOMAIN archiveCh}
    BY DEF IInv, QueueInv
  <2>4. {archiveCh[i] : i \in DOMAIN archiveCh} = {}
    BY <2>2
  <2> QED
    BY <2>2, <2>3, <2>4
<1> QED
  BY <1>1, Invariance, PTL

\* Lines only ever go to an open file that no archive worker has been given.
THEOREM NoWriteAfterHandOver == Spec => HandedOverIsFinal
<1>1. IInv => ([Next]_vars => [out' # out /\ buf # <<>> => open /\ file \notin handed]_vars)
  BY DEF IInv, FileInv
<1> QED
  BY <1>1, Invariance, PTL DEF Spec, HandedOverIsFinal
------------------------------------------------------------------------------
(***************************************************************************)
(* What LogStats reports.                                                  *)
(***************************************************************************)
Counted == IsFiniteSet(Given) /\ IsFiniteSet(waiting) /\ EveryLineCounted

LEMMA CountedInit == Init => Counted
<1> SUFFICES ASSUME Init PROVE Counted
  OBVIOUS
<1>1. Given = {} /\ waiting = {} /\ Len(accepted) = 0 /\ dropped = 0
  <2>1. ASSUME NEW l \in Line, l[2] <= produced[l[1]] PROVE FALSE
    <3>1. l[1] \in Producer /\ l[2] \in 1 .. MaxLines
      BY DEF Line
    <3> QED
      BY <2>1, <3>1 DEF Init
  <2> QED
    BY <2>1 DEF Init, Given
<1> QED
  BY <1>1, FS_EmptySet DEF Counted, EveryLineCounted

\* A producer hands over one line more, or none.
LEMMA OneMore ==
  ASSUME TypeOK, NEW p \in Producer, produced[p] < MaxLines, IsFiniteSet(Given),
         produced' = [produced EXCEPT ![p] = @ + 1]
  PROVE  IsFiniteSet(Given') /\ Cardinality(Given') = Cardinality(Given) + 1
<1> SUFFICES ASSUME NEW l, l = <<p, produced[p] + 1>>
             PROVE  IsFiniteSet(Given') /\ Cardinality(Given') = Cardinality(Given) + 1
  OBVIOUS
<1>1. /\ produced \in [Producer -> 0 .. MaxLines] /\ MaxLines \in Nat
      /\ produced[p] \in Nat
  BY LogAssumption DEF TypeOK
<1>2. l \in Line /\ l \notin Given
  BY <1>1 DEF Line, Given
<1>3. ASSUME NEW k \in Line
      PROVE  k \in Given' <=> k \in Given \/ k = l
  <2>1. PICK q \in Producer, n \in 1 .. MaxLines : k = <<q, n>>
    BY DEF Line
  <2>2. produced[q] \in Nat
    BY <1>1
  <2>3. k \in Given' <=> n <= produced'[q]
    BY <2>1 DEF Given
  <2>4. k \in Given <=> n <= produced[q]
    BY <2>1 DEF Given
  <2>5. CASE q = p
    <3>1. produced'[q] = produced[p] + 1 /\ (k = l <=> n = produced[p] + 1)
      BY <1>1, <2>1, <2>5
    <3> QED
      BY <1>1, <2>3, <2>4, <2>5, <3>1
  <2>6. CASE q # p
    BY <1>1, <2>1, <2>3, <2>4, <2>6
  <2> QED
    BY <2>5, <2>6
<1>4. Given' = Given \cup {l}
  BY <1>2, <1>3 DEF Given
<1> QED
  BY <1>2, <1>4, FS_AddElement

LEMMA SameCount ==
  ASSUME Counted, UNCHANGED <<produced, waiting, dropped, accepted>>
  PROVE  Counted'
  BY DEF Counted, EveryLineCounted, Given

LEMMA ProducerCounted ==
  ASSUME TypeOK, Counted, NEW p \in Producer, ProducerStep(p)
  PROVE  Counted'
<1>1. /\ IsFiniteSet(Given) /\ IsFiniteSet(waiting)
      /\ Cardinality(Given) \in Nat /\ Cardinality(waiting) \in Nat
      /\ Cardinality(Given) = Len(accepted) + dropped + Cardinality(waiting)
  BY FS_CardinalityType DEF Counted, EveryLineCounted
<1>2. /\ accepted \in Seq(Line) /\ Len(accepted) \in Nat /\ dropped \in Nat
  BY DEF TypeOK
<1>3. ASSUME NEW l, accepted' = Append(accepted, l)
      PROVE  Len(accepted') = Len(accepted) + 1
  BY <1>2, <1>3
<1>4. CASE WriteLine(p)
  <2>1. IsFiniteSet(Given') /\ Cardinality(Given') = Cardinality(Given) + 1
    BY <1>1, <1>4, OneMore DEF WriteLine
  <2>2. CASE Enter(p, produced'[p]) /\ UNCHANGED <<waiting, dropped>>
    BY <1>1, <1>2, <1>3, <2>1, <2>2 DEF Enter, Counted, EveryLineCounted
  <2>3. CASE dropped' = dropped + 1 /\ UNCHANGED <<accepted, waiting>>
    BY <1>1, <1>2, <2>1, <2>3 DEF Counted, EveryLineCounted
  <2>4. CASE waiting' = waiting \cup {p} /\ UNCHANGED <<accepted, dropped>>
    <3>1. IsFiniteSet(waiting') /\ Cardinality(waiting') = Cardinality(waiting) + 1
      BY <1>1, <1>4, <2>4, FS_AddElement DEF WriteLine
    <3> QED
      BY <1>1, <1>2, <2>1, <2>4, <3>1 DEF Counted, EveryLineCounted
  <2> QED
    BY <1>4, <2>2, <2>3, <2>4 DEF WriteLine
<1>5. ASSUME p \in waiting, waiting' = waiting \ {p}, UNCHANGED produced
      PROVE  /\ IsFiniteSet(Given') /\ Cardinality(Given') = Cardinality(Given)
             /\ IsFiniteSet(waiting') /\ Cardinality(waiting') = Cardinality(waiting) - 1
  <2>1. Given' = Given
    BY <1>5 DEF Given
  <2> QED
    BY <1>1, <1>5, <2>1, FS_RemoveElement
<1>6. CASE Unblock(p)
  BY <1>1, <1>2, <1>3, <1>5, <1>6 DEF Unblock, Enter, Counted, EveryLineCounted
<1>7. CASE Timeout(p)
  BY <1>1, <1>2, <1>5, <1>7 DEF Timeout, Counted, EveryLineCounted
<1> QED
  BY <1>4, <1>6, <1>7 DEF ProducerStep

\* Every line handed to writeLine was accepted, is counted as dropped, or waits.
THEOREM NoLineUncounted == Spec => []EveryLineCounted
<1>1. TypeOK /\ Counted /\ [Next]_vars => Counted'
  <2> SUFFICES ASSUME TypeOK, Counted, [Next]_vars PROVE Counted'
    OBVIOUS
  <2>1. ASSUME NEW p \in Producer, ProducerStep(p) PROVE Counted'
    BY <2>1, ProducerCounted
  <2>2. CASE UNCHANGED <<produced, waiting, dropped, accepted>>
    BY <2>2, SameCount
  <2>3. CASE NewDay \/ UNCHANGED vars
    BY <2>2, <2>3 DEF NewDay, vars, prodVars
  <2>4. CASE RunStep
    BY <2>2, <2>4 DEF RunStep, RunLine, RunDrained, RunTick, RunDone, RunFinalLine, RunExit,
                      othersInRun, prodVars
  <2>5. ASSUME NEW a \in ArchiveWorker, ArchiveStep(a) PROVE Counted'
    BY <2>2, <2>5 DEF ArchiveStep, ArchiveTake, ArchiveDone, ArchiveExit, othersInArchive,
                      prodVars
  <2>6. CASE StopBegin \/ StopStep
    BY <2>2, <2>6 DEF StopBegin, StopStep, StopClose, StopReturn, othersInStop, prodVars
  <2> QED
    BY <2>1, <2>3, <2>4, <2>5, <2>6 DEF Next
<1>2. Counted => EveryLineCounted
  BY DEF Counted
<1> QED
  BY <1>1, <1>2, CountedInit, TypeCorrect, PTL DEF Spec
------------------------------------------------------------------------------
(***************************************************************************)
(* Who archives a file.                                                    *)
(***************************************************************************)
LEMMA AppendIndex ==
  ASSUME NEW q \in Seq(Day), NEW d \in Day
  PROVE  \A i \in DOMAIN Append(q, d) :
           \/ i \in DOMAIN q /\ Append(q, d)[i] = q[i]
           \/ i = Len(q) + 1 /\ Append(q, d)[i] = d
  OBVIOUS

LEMMA TailIndex ==
  ASSUME NEW q \in Seq(Day), q # <<>>
  PROVE  /\ 1 \in DOMAIN q /\ Head(q) = q[1]
         /\ \A i \in DOMAIN Tail(q) : /\ i \in Nat /\ i + 1 \in DOMAIN q
                                      /\ i + 1 # 1 /\ Tail(q)[i] = q[i + 1]
  OBVIOUS

\* A rotation queues a file that nobody was handed before, or a stuck one.
LEMMA RotateOneArchiver ==
  ASSUME IInv, OneArchiverPerFile, TakeLine, UNCHANGED <<holding, archived>>
  PROVE  OneArchiverPerFile'
<1>1. /\ open \/ file \in stuck \cup {NoFile}
      /\ \A a \in ArchiveWorker : holding[a] \in archived => holding[a] \in stuck
      /\ \A i, j \in DOMAIN archiveCh :
           archiveCh[i] = archiveCh[j] => i = j \/ archiveCh[i] \in stuck
      /\ \A a, b \in ArchiveWorker :
           holding[a] = holding[b] => a = b \/ holding[a] \in stuck \cup {NoFile}
      /\ \A i \in DOMAIN archiveCh : archiveCh[i] \notin stuck =>
           /\ archiveCh[i] \notin archived
           /\ \A a \in ArchiveWorker : holding[a] # archiveCh[i]
  BY DEF OneArchiverPerFile
<1>2. /\ archiveCh \in Seq(Day) /\ file \in Day \cup {NoFile} /\ NoFile \notin Day
      /\ open => file \in Day /\ file \notin handed
  BY DEF IInv, FileInv, TypeOK, FileName, Day, NoFile
<1>3. /\ stuck \subseteq stuck'
      /\ open' \/ file' \in stuck' \cup {NoFile}
      /\ archiveCh' # archiveCh => HandOver /\ file # NoFile
  BY <1>1 DEF TakeLine, WriteNowhere, LoseLine, WriteSameDay, Rotate, OpensToday
<1>4. CASE archiveCh' = archiveCh
  BY <1>1, <1>3, <1>4 DEF OneArchiverPerFile
<1>5. CASE archiveCh' = Append(archiveCh, file) /\ file \in Day
  <2>1. \/ file \in stuck
        \/ /\ file \notin archived
           /\ \A a \in ArchiveWorker : holding[a] # file
           /\ \A i \in DOMAIN archiveCh : archiveCh[i] # file
    BY <1>1, <1>2, <1>5 DEF IInv, QueueInv
  <2>2. \A i \in DOMAIN archiveCh' :
          \/ i \in DOMAIN archiveCh /\ archiveCh'[i] = archiveCh[i]
          \/ i = Len(archiveCh) + 1 /\ archiveCh'[i] = file
    BY <1>2, <1>5, AppendIndex
  <2>3. \A i, j \in DOMAIN archiveCh' :
          archiveCh'[i] = archiveCh'[j] => i = j \/ archiveCh'[i] \in stuck
    BY <1>1, <2>1, <2>2
  <2>4. \A i \in DOMAIN archiveCh' : archiveCh'[i] \notin stuck =>
          /\ archiveCh'[i] \notin archived
          /\ \A a \in ArchiveWorker : holding[a] # archiveCh'[i]
    BY <1>1, <2>1, <2>2
  <2> QED
    BY <1>1, <1>3, <2>3, <2>4 DEF OneArchiverPerFile
<1> QED
  BY <1>2, <1>3, <1>4, <1>5 DEF HandOver

\* A worker takes a file from the queue, or is done with it.
LEMMA ArchiveOneArchiver ==
  ASSUME IInv, OneArchiverPerFile, NEW a \in ArchiveWorker, ArchiveStep(a)
  PROVE  OneArchiverPerFile'
<1> USE DEF othersInArchive, runVars
<1>1. /\ open \/ file \in stuck \cup {NoFile}
      /\ \A b \in ArchiveWorker : holding[b] \in archived => holding[b] \in stuck
      /\ \A i, j \in DOMAIN archiveCh :
           archiveCh[i] = archiveCh[j] => i = j \/ archiveCh[i] \in stuck
      /\ \A b, c \in ArchiveWorker :
           holding[b] = holding[c] => b = c \/ holding[b] \in stuck \cup {NoFile}
      /\ \A i \in DOMAIN archiveCh : archiveCh[i] \notin stuck =>
           /\ archiveCh[i] \notin archived
           /\ \A b \in ArchiveWorker : holding[b] # archiveCh[i]
  BY DEF OneArchiverPerFile
<1>2. /\ holding \in [ArchiveWorker -> FileName] /\ archiveCh \in Seq(Day)
      /\ archived \subseteq Day /\ NoFile \notin Day
  BY DEF IInv, TypeOK, Day, NoFile
<1>3. CASE ArchiveTake(a)
  <2>1. /\ UNCHANGED <<open, file, stuck, archived>>
        /\ archiveCh # <<>> /\ archiveCh' = Tail(archiveCh)
    BY <1>3 DEF ArchiveTake
  <2>2. /\ 1 \in DOMAIN archiveCh
        /\ \A i \in DOMAIN archiveCh' :
             /\ i \in Nat /\ i + 1 \in DOMAIN archiveCh /\ i + 1 # 1
             /\ archiveCh'[i] = archiveCh[i + 1]
    BY <1>2, <2>1, TailIndex
  <2>3. \A b \in ArchiveWorker :
          holding'[b] = IF b = a THEN archiveCh[1] ELSE holding[b]
    BY <1>2, <1>3, <2>1, TailIndex DEF ArchiveTake
  <2>4. \A b \in ArchiveWorker : holding'[b] \in archived => holding'[b] \in stuck
    BY <1>1, <2>2, <2>3
  <2>5. \A i, j \in DOMAIN archiveCh' :
          archiveCh'[i] = archiveCh'[j] => i = j \/ archiveCh'[i] \in stuck
    <3>1. SUFFICES ASSUME NEW i \in DOMAIN archiveCh', NEW j \in DOMAIN archiveCh',
                          archiveCh'[i] = archiveCh'[j], archiveCh'[i] \notin stuck
                   PROVE  i = j
      OBVIOUS
    <3>2. i + 1 = j + 1 /\ i \in Nat /\ j \in Nat
      BY <1>1, <2>2, <3>1
    <3> QED
      BY <3>2
  <2>6. \A b, c \in ArchiveWorker :
          holding'[b] = holding'[c] => b = c \/ holding'[b] \in stuck \cup {NoFile}
    BY <1>1, <2>2, <2>3
  <2>7. \A i \in DOMAIN archiveCh' : archiveCh'[i] \notin stuck =>
          /\ archiveCh'[i] \notin archived
          /\ \A b \in ArchiveWorker : holding'[b] # archiveCh'[i]
    BY <1>1, <2>2, <2>3
  <2> QED
    BY <1>1, <2>1, <2>4, <2>5, <2>6, <2>7 DEF OneArchiverPerFile
<1>4. CASE ArchiveDone(a)
  <2>1. /\ UNCHANGED <<open, file, stuck, archiveCh>>
        /\ holding[a] # NoFile /\ archived' = archived \cup {holding[a]}
    BY <1>4 DEF ArchiveDone
  <2>2. \A b \in ArchiveWorker :
          holding'[b] = IF b = a THEN NoFile ELSE holding[b]
    BY <1>2, <1>4 DEF ArchiveDone
  <2>3. \A b \in ArchiveWorker : holding'[b] \in archived' => holding'[b] \in stuck
    BY <1>1, <1>2, <2>1, <2>2
  <2>4. \A i \in DOMAIN archiveCh : archiveCh[i] \in Day
    BY <1>2
  <2>5. \A i \in DOMAIN archiveCh : archiveCh[i] \notin stuck =>
          /\ archiveCh[i] \notin archived'
          /\ \A b \in ArchiveWorker : holding'[b] # archiveCh[i]
    BY <1>1, <1>2, <2>1, <2>2, <2>4
  <2> QED
    BY <1>1, <2>1, <2>2, <2>3, <2>5 DEF OneArchiverPerFile
<1>5. CASE ArchiveExit(a)
  BY <1>5 DEF ArchiveExit, OneArchiverPerFile
<1> QED
  BY <1>3, <1>4, <1>5 DEF ArchiveStep

\* A day's file goes to one archive worker, once, unless it is one of those
\* that stayed current because the next did not open: no two workers read,
\* encrypt and remove the same file (writeToBuf, archiveWorker).
THEOREM ArchivedOnce == Spec => []OneArchiverPerFile
<1>1. Init => OneArchiverPerFile
  BY DEF Init, OneArchiverPerFile, NoFile
<1>2. IInv /\ OneArchiverPerFile /\ [Next]_vars => OneArchiverPerFile'
  <2> SUFFICES ASSUME IInv, OneArchiverPerFile, [Next]_vars
               PROVE  OneArchiverPerFile'
    OBVIOUS
  <2>1. CASE UNCHANGED <<open, file, stuck, holding, archiveCh, archived>>
    BY <2>1 DEF OneArchiverPerFile
  <2>2. CASE RunLine \/ RunFinalLine
    BY <2>2, RotateOneArchiver
       DEF RunLine, RunFinalLine, othersInRun, archVars
  <2>3. ASSUME NEW a \in ArchiveWorker, ArchiveStep(a)
        PROVE  OneArchiverPerFile'
    BY <2>3, ArchiveOneArchiver
  <2>4. CASE UNCHANGED vars
    BY <2>1, <2>4 DEF vars, runVars, archVars
  <2>5. CASE NewDay \/ StopBegin \/ StopStep
    BY <2>1, <2>5 DEF NewDay, StopBegin, StopStep, StopClose, StopReturn,
                      othersInStop, runVars, archVars
  <2>6. ASSUME NEW p \in Producer, ProducerStep(p)
        PROVE  OneArchiverPerFile'
    BY <2>1, <2>6 DEF ProducerStep, WriteLine, Unblock, Timeout, runVars, archVars
  <2>7. CASE RunDrained \/ RunTick \/ RunDone \/ RunExit
    BY <2>1, <2>7 DEF RunDrained, RunTick, RunDone, RunExit, othersInRun, archVars
  <2> QED
    BY <2>2, <2>3, <2>4, <2>5, <2>6, <2>7 DEF Next, RunStep
<1> QED
  BY <1>1, <1>2, Invariance, PTL DEF Spec
------------------------------------------------------------------------------
(***************************************************************************)
(* The end of the process (Lifecycle).                                     *)
(***************************************************************************)

LEMMA LifeLines ==
  ASSUME LifeInv, NEW x \in Life!Log
  PROVE  /\ LogSize \in Nat
         /\ lines \in [Life!Log -> 0..LogSize] /\ late \in [Life!Log -> 0..LogSize]
         /\ lines[x] \in Nat /\ lines[x] <= LogSize
         /\ late[x] = IF lifeRun[x] = "off" THEN lines[x] ELSE 0
<1>1. LogSize \in Nat
  BY ProcessAssumption DEF Life!LifeAssumption
<1>2. /\ lines \in [Life!Log -> 0..LogSize] /\ late \in [Life!Log -> 0..LogSize]
      /\ late[x] = IF lifeRun[x] = "off" THEN lines[x] ELSE 0
  BY DEF LifeInv, Life!Inv, Life!TypeOK, Life!StoppedIsFlushed
<1>3. lines[x] \in 0..LogSize
  BY <1>2
<1> QED
  BY <1>1, <1>2, <1>3

\* A line that is taken from a channel, or that ends in it.
LEMMA LifeChannels ==
  ASSUME LifeInv, NEW x \in Life!Log
  PROVE  /\ Life!Take(x) => LifeInv'
         /\ Life!Drained(x) => LifeInv'
<1>0. /\ LogSize \in Nat /\ lines \in [Life!Log -> 0..LogSize]
      /\ lines[x] \in Nat /\ lines[x] <= LogSize
  BY LifeLines
<1> USE DEF LifeInv, Life!Inv, Life!TypeOK,
        Life!StoppedIsFlushed, Life!OnlyLateLinesAreLost, Life!Log
<1>1. CASE Life!Take(x)
  <2>1. /\ lines' = [lines EXCEPT ![x] = @ - 1] /\ lines[x] > 0
        /\ lifeRun[x] # "off"
        /\ UNCHANGED <<main, serving, handler, cron, job, lifeRun, late>>
    BY <1>1 DEF Life!Take
  <2>2. lines' \in [Life!Log -> 0..LogSize]
    <3>1. lines[x] - 1 \in 0..LogSize
      BY ONLY <1>0, <2>1
    <3> QED
      BY ONLY <1>0, <2>1, <3>1
  <2>3. \A y \in Life!Log : lifeRun[y] = "off" => lines'[y] = lines[y]
    BY <2>1
  <2> QED
    BY <2>1, <2>2, <2>3
<1>2. CASE Life!Drained(x)
  <2>1. /\ lifeRun' = [lifeRun EXCEPT ![x] = "off"]
        /\ lifeRun[x] = "drain" /\ lines[x] = 0
        /\ UNCHANGED <<main, serving, handler, cron, job, lines, late>>
    BY <1>2 DEF Life!Drained
  <2>2. lifeRun' \in [Life!Log -> {"on", "drain", "off"}]
    BY <2>1
  <2>3. \A y \in Life!Log : lifeRun'[y] = IF y = x THEN "off" ELSE lifeRun[y]
    BY <2>1
  <2> QED
    BY <2>1, <2>2, <2>3
<1> QED
  BY <1>1, <1>2

\* An answer's line finds the goroutine there, or is late.
LEMMA LifeRespond ==
  ASSUME LifeInv, main \notin {"exited", "fatal"},
         NEW h \in Handler, Life!Respond(h)
  PROVE  LifeInv'
<1>0. /\ LogSize \in Nat /\ lines \in [Life!Log -> 0..LogSize]
      /\ \A x \in Life!Log : lines[x] \in Nat
  BY LifeLines DEF Life!Log
<1> USE DEF LifeInv, Life!Inv, Life!TypeOK,
        Life!StoppedIsFlushed, Life!OnlyLateLinesAreLost
<1>1. /\ handler' \in [Handler -> BOOLEAN]
      /\ UNCHANGED <<main, serving, cron, job, lifeRun>>
  BY DEF Life!Respond
<1>2. PICK x \in Life!Log :
        IF lines[x] < LogSize
        THEN /\ lines' = [lines EXCEPT ![x] = @ + 1]
             /\ late' = IF lifeRun[x] = "off"
                        THEN [late EXCEPT ![x] = @ + 1] ELSE late
        ELSE UNCHANGED <<lines, late>>
  BY DEF Life!Respond
<1>3. CASE UNCHANGED <<lines, late>>
  BY <1>1, <1>3
<1>4. CASE lines[x] < LogSize
  <2>1. lines[x] + 1 \in 0..LogSize
    BY ONLY <1>0, <1>4, x \in Life!Log
  <2>2. lines' \in [Life!Log -> 0..LogSize]
    BY <1>0, <1>2, <1>4, <2>1
  <2>3. \A y \in Life!Log :
          lines'[y] = IF y = x THEN lines[y] + 1 ELSE lines[y]
    BY <1>2, <1>4
  <2>4. \A y \in Life!Log :
          late'[y] = IF y = x /\ lifeRun[y] = "off" THEN late[y] + 1 ELSE late[y]
    BY <1>2, <1>4
  <2>5. DOMAIN late' = Life!Log /\ late' = [y \in Life!Log |-> late'[y]]
    BY <1>2, <1>4
  <2>6. \A y \in Life!Log : late'[y] = IF lifeRun[y] = "off" THEN lines'[y] ELSE 0
    BY <2>3, <2>4
  <2>7. \A y \in Life!Log : late'[y] \in 0..LogSize
    BY <2>2, <2>6
  <2> QED
    BY <1>1, <2>2, <2>5, <2>6, <2>7
<1> QED
  BY <1>2, <1>3, <1>4

\* A step of main: it goes past a log only when that log's goroutine is gone.
LEMMA LifeMain ==
  ASSUME LifeInv,
         Life!Signal \/ Life!Fatal \/ Life!TaskStop \/ Life!FlushLogs \/ Life!Shutdown
  PROVE  LifeInv'
<1> USE DEF LifeInv, Life!Inv, Life!TypeOK,
        Life!StoppedIsFlushed, Life!OnlyLateLinesAreLost
<1>1. CASE Life!Signal \/ Life!Fatal \/ Life!TaskStop
  BY <1>1 DEF Life!Signal, Life!Fatal, Life!TaskStop
<1>2. CASE Life!FlushLogs
  <2>1. PICK x \in Life!Log, next \in {"error", "shutdown"} :
          /\ \/ x = "info" /\ next = "error"
             \/ x = "error" /\ next = "shutdown"
          /\ Life!Stop(x, next)
    <3>1. CASE Life!Stop("info", "error")
      BY ONLY <3>1 DEF Life!Log
    <3>2. CASE Life!Stop("error", "shutdown")
      BY ONLY <3>2 DEF Life!Log
    <3> QED
      BY ONLY <1>2, <3>1, <3>2 DEF Life!FlushLogs
  <2>2. UNCHANGED <<serving, handler, cron, job, lines, late>> /\ main = x
    BY <2>1 DEF Life!Stop
  <2>3. CASE lifeRun[x] = "on" /\ lifeRun' = [lifeRun EXCEPT ![x] = "drain"]
             /\ main' = main
    <3>1. lifeRun' \in [Life!Log -> {"on", "drain", "off"}]
      BY <2>3
    <3>2. \A y \in Life!Log : lifeRun'[y] = IF y = x THEN "drain" ELSE lifeRun[y]
      BY <2>3
    <3> QED
      BY <2>1, <2>2, <2>3, <3>1, <3>2 DEF Life!Log
  <2>4. CASE lifeRun[x] = "off" /\ main' = next /\ lifeRun' = lifeRun
    BY <2>1, <2>2, <2>4
  <2> QED
    BY <2>1, <2>3, <2>4 DEF Life!Stop
<1>3. CASE Life!Shutdown
  <2>1. lifeRun["info"] = "off" /\ lifeRun["error"] = "off" /\ main = "shutdown"
    BY <1>3 DEF Life!Shutdown
  <2> QED
    BY <1>3, <2>1 DEF Life!Shutdown, Life!Log
<1> QED
  BY <1>1, <1>2, <1>3

\* When main has returned, each log's goroutine has written all that was in
\* its channel when it ended: what is left is of requests answered after that
\* (main, FlushLogs), for any number of requests and jobs.
THEOREM OnlyLateLines == Life!Spec => []LifeInv
<1>1. Life!Init => LifeInv
  BY ProcessAssumption
     DEF Life!Init, LifeInv, Life!Inv, Life!TypeOK, Life!StoppedIsFlushed,
         Life!OnlyLateLinesAreLost, Life!LifeAssumption, Life!Log
<1>2. LifeInv /\ [Life!Next]_(Life!vars) => LifeInv'
  <2> SUFFICES ASSUME LifeInv, [Life!Next]_(Life!vars)
               PROVE  LifeInv'
    OBVIOUS
  <2> USE DEF LifeInv, Life!Inv, Life!TypeOK, Life!StoppedIsFlushed,
              Life!OnlyLateLinesAreLost
  <2>1. CASE UNCHANGED Life!vars
    BY <2>1 DEF Life!vars
  <2>2. ASSUME NEW h \in Handler, Life!Request(h) PROVE LifeInv'
    BY <2>2 DEF Life!Request
  <2>3. ASSUME NEW j \in Job, Life!StartJob(j) \/ Life!EndJob(j) PROVE LifeInv'
    BY <2>3 DEF Life!StartJob, Life!EndJob
  <2> QED
    BY <2>1, <2>2, <2>3, LifeChannels, LifeRespond, LifeMain DEF Life!Next
<1> QED
  BY <1>1, <1>2, PTL DEF Life!Spec
------------------------------------------------------------------------------
(***************************************************************************)
(* prometheus/nodes.yml (NodeMonitor).                                     *)
(***************************************************************************)

\* A request goes to a place where it may stand with the mutex and the files
\* as they are then; with the mutex in another's hand it touches neither.
LEMMA MonitorMoves ==
  ASSUME MonitorInv, NEW p \in MonReq, NEW next \in Monitor!ReqType,
         req' = [req EXCEPT ![p] = next], list' = list,
         next.at \in {"open", "write", "rename", "reload"} <=> mu' = p,
         mu' # mu => mu \in {None, p} /\ mu' \in {None, p},
         <<tmp, nodes_yml>>' # <<tmp, nodes_yml>> => mu = p,
         nodes_yml' \in {None} \cup 1..list,
         loaded' \in {None} \cup 1..list,
         \/ UNCHANGED <<nodes_yml, overtaken>>
         \/ nodes_yml' = nodes_yml /\ overtaken' = overtaken \ {p}
         \/ overtaken' = overtaken \cup ({q \in MonReq : req[q] # Monitor!Idle} \ {p}),
         p \notin overtaken' /\ next.at \in {"lock", "open", "write", "rename"} =>
           nodes_yml' \in {None} \cup 1..next.v,
         next.at \in {"write", "rename", "reload"} => next.v # 0,
         next.at = "rename" => tmp' = next.v,
         next.at = "reload" => nodes_yml' = next.v
  PROVE  MonitorInv'
<1>0. /\ overtaken \subseteq MonReq
      /\ \A q \in MonReq \ overtaken :
           req[q].at \in {"lock", "open", "write", "rename"} =>
             nodes_yml \in {None} \cup 1..req[q].v
  BY DEF MonitorInv, Monitor!Inv, Monitor!TypeOK, Monitor!NotOvertakenIsNew
<1>1. /\ list \in Nat /\ mu \in MonReq \cup {None} /\ None \notin MonReq
      /\ req \in [MonReq -> Monitor!ReqType]
      /\ \A q \in MonReq :
           /\ req[q].at \in {"open", "write", "rename", "reload"} <=> mu = q
           /\ req[q].at \in {"write", "rename", "reload"} => req[q].v # 0
           /\ req[q].at = "rename" => tmp = req[q].v
           /\ req[q].at = "reload" => nodes_yml = req[q].v
  BY ProcessAssumption
     DEF Monitor!MonitorAssumption, MonitorInv, Monitor!Inv, Monitor!TypeOK,
         Monitor!FileIsWhole, Monitor!Holds
<1>2. /\ req' \in [MonReq -> Monitor!ReqType]
      /\ \A q \in MonReq : req'[q] = IF q = p THEN next ELSE req[q]
  BY <1>1
<1>3. Monitor!ReqType' = Monitor!ReqType
  BY DEF Monitor!ReqType
<1>4. mu' \in MonReq \cup {None}
  BY <1>1
<1>5. \A q \in MonReq :
        req'[q].at \in {"open", "write", "rename", "reload"} <=> mu' = q
  BY <1>1, <1>2
<1>6. \A q \in MonReq :
        /\ req'[q].at \in {"write", "rename", "reload"} => req'[q].v # 0
        /\ req'[q].at = "rename" => tmp' = req'[q].v
        /\ req'[q].at = "reload" => nodes_yml' = req'[q].v
  BY <1>1, <1>2
<1>7. Monitor!TypeOK'
  <2>1. overtaken' \subseteq MonReq
    BY <1>0
  <2> QED
    BY <1>1, <1>2, <1>3, <1>4, <1>5, <2>1 DEF Monitor!TypeOK, Monitor!Holds
<1>8. Monitor!FileIsWhole'
  BY <1>6 DEF Monitor!FileIsWhole
<1>9. Monitor!NotOvertakenIsNew'
  <2>1. SUFFICES ASSUME NEW q \in MonReq, q \notin overtaken',
                        req'[q].at \in {"lock", "open", "write", "rename"}
                 PROVE  nodes_yml' \in {None} \cup 1..req'[q].v
    BY DEF Monitor!NotOvertakenIsNew
  <2>2. CASE q = p
    BY <1>2, <2>1, <2>2
  <2>3. CASE q # p
    <3>1. req'[q] = req[q] /\ req[q] # Monitor!Idle
      BY <1>2, <2>1, <2>3 DEF Monitor!Idle
    <3>2. nodes_yml' = nodes_yml /\ q \notin overtaken
      BY <2>1, <2>3, <3>1
    <3> QED
      BY <1>0, <2>1, <3>1, <3>2
  <2> QED
    BY <2>2, <2>3
<1> QED
  BY <1>7, <1>8, <1>9 DEF MonitorInv, Monitor!Inv

\* Only the place changes.
LEMMA MonitorGoes ==
  ASSUME MonitorInv, NEW p \in MonReq,
         NEW at \in {"open", "write", "rename", "reload", "success", "error"},
         req' = [req EXCEPT ![p].at = at]
  PROVE  \E next \in Monitor!ReqType :
           /\ req' = [req EXCEPT ![p] = next]
           /\ next.at = at /\ next.v = req[p].v
<1>1. req[p] \in Monitor!ReqType /\ req \in [MonReq -> Monitor!ReqType]
  BY DEF MonitorInv, Monitor!Inv, Monitor!TypeOK
<1>2. /\ [req[p] EXCEPT !.at = at] \in Monitor!ReqType
      /\ [req[p] EXCEPT !.at = at].at = at
      /\ [req[p] EXCEPT !.at = at].v = req[p].v
  BY <1>1 DEF Monitor!ReqType
<1> QED
  BY <1>2

LEMMA MonitorSteps ==
  ASSUME MonitorInv, NEW p \in MonReq,
         Monitor!GetAllUseServerNode(p) \/ Monitor!Runs(p)
  PROVE  MonitorInv'
<1>1. /\ list \in Nat /\ mu \in MonReq \cup {None} /\ None \notin MonReq
      /\ req \in [MonReq -> Monitor!ReqType] /\ req[p].v \in 0..list
      /\ req[p].at \in {"open", "write", "rename", "reload"} <=> mu = p
      /\ req[p].at \in {"write", "rename", "reload"} => req[p].v # 0
      /\ req[p].at = "rename" => tmp = req[p].v
      /\ nodes_yml \in {None} \cup 1..list /\ loaded \in {None} \cup 1..list
      /\ p \notin overtaken /\ req[p].at \in {"lock", "open", "write", "rename"} =>
           nodes_yml \in {None} \cup 1..req[p].v
  BY ProcessAssumption
     DEF Monitor!MonitorAssumption, MonitorInv, Monitor!Inv, Monitor!TypeOK,
         Monitor!FileIsWhole, Monitor!Holds, Monitor!ReqType, Monitor!NotOvertakenIsNew
<1>2. CASE Monitor!GetAllUseServerNode(p)
  <2>1. /\ req' = [req EXCEPT ![p] = [at |-> "lock", v |-> list]]
        /\ UNCHANGED <<list, mu, tmp, nodes_yml, loaded>> /\ mu # p
        /\ overtaken' = overtaken \ {p}
    BY <1>1, <1>2 DEF Monitor!GetAllUseServerNode, Monitor!Idle
  <2>2. [at |-> "lock", v |-> list] \in Monitor!ReqType
    BY <1>1 DEF Monitor!ReqType
  <2> QED
    BY <1>1, <2>1, <2>2, MonitorMoves
<1>3. CASE Monitor!Lock(p)
  <2>1. /\ mu = None /\ mu' = p /\ req' = [req EXCEPT ![p].at = "open"]
        /\ req[p].at = "lock" /\ UNCHANGED <<list, tmp, nodes_yml, loaded, overtaken>>
    BY <1>3 DEF Monitor!Lock
  <2>2. PICK next \in Monitor!ReqType :
          req' = [req EXCEPT ![p] = next] /\ next.at = "open" /\ next.v = req[p].v
    BY <2>1, MonitorGoes
  <2> QED
    BY <1>1, <2>1, <2>2, MonitorMoves
<1>4. CASE Monitor!Open(p)
  <2>1. /\ mu = p /\ UNCHANGED <<list, nodes_yml, loaded, overtaken>>
        /\ req[p].at = "open"
        /\ \/ req' = [req EXCEPT ![p].at = "error"] /\ mu' = None
           \/ /\ req[p].v # 0 /\ mu' = mu
              /\ req' = [req EXCEPT ![p].at = "write"]
    BY <1>1, <1>4 DEF Monitor!Open, Monitor!Ends, Monitor!Goes
  <2>2. PICK next \in Monitor!ReqType :
          /\ req' = [req EXCEPT ![p] = next] /\ next.v = req[p].v
          /\ \/ next.at = "error" /\ mu' = None
             \/ req[p].v # 0 /\ next.at = "write" /\ mu' = mu
    BY <2>1, MonitorGoes
  <2> QED
    BY <1>1, <2>1, <2>2, MonitorMoves
<1>5. CASE Monitor!WriteFile(p)
  <2>1. /\ req[p].at = "write" /\ UNCHANGED <<list, nodes_yml, loaded, overtaken>>
        /\ \/ /\ req' = [req EXCEPT ![p].at = "rename"] /\ mu' = mu
              /\ tmp' = req[p].v
           \/ req' = [req EXCEPT ![p].at = "error"] /\ mu' = None
    BY <1>5 DEF Monitor!WriteFile, Monitor!Ends, Monitor!Goes
  <2>2. PICK next \in Monitor!ReqType :
          /\ req' = [req EXCEPT ![p] = next] /\ next.v = req[p].v
          /\ \/ next.at = "rename" /\ mu' = mu /\ tmp' = req[p].v
             \/ next.at = "error" /\ mu' = None
    BY <2>1, MonitorGoes
  <2> QED
    BY <1>1, <2>1, <2>2, MonitorMoves
<1>6. CASE Monitor!Rename(p)
  <2>1. /\ req[p].at = "rename" /\ UNCHANGED <<list, loaded>>
        /\ \/ /\ req' = [req EXCEPT ![p].at = "reload"] /\ mu' = mu
              /\ nodes_yml' = tmp
              /\ overtaken' = overtaken \cup ({q \in MonReq : req[q] # Monitor!Idle} \ {p})
           \/ /\ req' = [req EXCEPT ![p].at = "error"] /\ mu' = None
              /\ nodes_yml' = nodes_yml /\ overtaken' = overtaken
    BY <1>6 DEF Monitor!Rename, Monitor!Ends, Monitor!Goes
  <2>2. PICK next \in Monitor!ReqType :
          /\ req' = [req EXCEPT ![p] = next] /\ next.v = req[p].v
          /\ \/ /\ next.at = "reload" /\ mu' = mu /\ nodes_yml' = tmp
                /\ overtaken' = overtaken \cup ({q \in MonReq : req[q] # Monitor!Idle} \ {p})
             \/ /\ next.at = "error" /\ mu' = None /\ nodes_yml' = nodes_yml
                /\ overtaken' = overtaken
    BY <2>1, MonitorGoes
  <2>3. tmp = req[p].v /\ tmp \in 1..list /\ mu = p /\ req[p].v # 0
    BY <1>1, <2>1
  <2>4. nodes_yml' \in {None} \cup 1..list
    BY <1>1, <2>2, <2>3
  <2> QED
    BY <1>1, <2>1, <2>2, <2>3, <2>4, MonitorMoves
<1>7. CASE Monitor!Reload(p)
  <2>1. /\ req[p].at = "reload" /\ mu' = None
        /\ UNCHANGED <<list, tmp, nodes_yml, overtaken>> /\ loaded' \in {loaded, nodes_yml}
        /\ \/ req' = [req EXCEPT ![p].at = "success"]
           \/ req' = [req EXCEPT ![p].at = "error"]
    BY <1>7 DEF Monitor!Reload, Monitor!Ends
  <2>2. PICK next \in Monitor!ReqType :
          req' = [req EXCEPT ![p] = next] /\ next.at \in {"success", "error"}
    BY <2>1, MonitorGoes
  <2> QED
    BY <1>1, <2>1, <2>2, MonitorMoves
<1>8. CASE Monitor!Answered(p)
  <2>1. /\ req' = [req EXCEPT ![p] = Monitor!Idle] /\ mu # p
        /\ UNCHANGED <<list, mu, tmp, nodes_yml, loaded, overtaken>>
    BY <1>1, <1>8 DEF Monitor!Answered
  <2>2. Monitor!Idle \in Monitor!ReqType /\ Monitor!Idle.at = "idle"
    BY <1>1 DEF Monitor!ReqType, Monitor!Idle
  <2> QED
    BY <1>1, <2>1, <2>2, MonitorMoves
<1> QED
  BY <1>2, <1>3, <1>4, <1>5, <1>6, <1>7, <1>8 DEF Monitor!Runs

\* Whichever requests write it, whatever fails and wherever the process ends,
\* prometheus/nodes.yml is missing or one list of the database in full, and at
\* the reload it is the list of the request that reloads (NodeMonitor).
THEOREM NodesFileIsWhole == Monitor!Spec => []MonitorInv
<1>1. Monitor!Init => MonitorInv
  <2> SUFFICES ASSUME Monitor!Init PROVE MonitorInv
    OBVIOUS
  <2>1. None \notin MonReq /\ list \in {0, 1} /\ mu = None
    BY ProcessAssumption DEF Monitor!MonitorAssumption, Monitor!Init
  <2>2. Monitor!Idle \in Monitor!ReqType /\ Monitor!Idle.at = "idle"
    BY <2>1 DEF Monitor!ReqType, Monitor!Idle
  <2>3. req \in [MonReq -> Monitor!ReqType] /\ \A p \in MonReq : req[p].at = "idle"
    BY <2>2 DEF Monitor!Init
  <2> QED
    BY <2>1, <2>3
       DEF Monitor!Init, MonitorInv, Monitor!Inv, Monitor!TypeOK,
           Monitor!FileIsWhole, Monitor!Holds, Monitor!NotOvertakenIsNew
<1>2. MonitorInv /\ [Monitor!Next]_(Monitor!vars) => MonitorInv'
  <2> SUFFICES ASSUME MonitorInv, [Monitor!Next]_(Monitor!vars)
               PROVE  MonitorInv'
    OBVIOUS
  <2> USE DEF MonitorInv, Monitor!Inv, Monitor!TypeOK, Monitor!FileIsWhole,
              Monitor!Holds, Monitor!NotOvertakenIsNew
  <2>1. CASE UNCHANGED Monitor!vars
    BY <2>1 DEF Monitor!vars, Monitor!ReqType
  <2>2. CASE Monitor!Change
    <3>1. list' = list + 1 /\ UNCHANGED <<mu, tmp, nodes_yml, loaded, req, overtaken>>
      BY <2>2 DEF Monitor!Change
    <3>2. list \in Nat /\ 1..list \subseteq 1..list' /\ 0..list \subseteq 0..list'
      BY <3>1
    <3>3. Monitor!ReqType \subseteq Monitor!ReqType'
      BY <3>2 DEF Monitor!ReqType
    <3>4. req' \in [MonReq -> Monitor!ReqType']
      BY <3>1, <3>3
    <3> QED
      BY <3>1, <3>2, <3>4
  <2>3. CASE Monitor!Restart
    <3>1. /\ req' = [p \in MonReq |-> Monitor!Idle] /\ mu' = None
          /\ UNCHANGED <<list, tmp, nodes_yml, loaded>> /\ None \notin MonReq
          /\ overtaken' = {}
      BY <2>3, ProcessAssumption DEF Monitor!Restart, Monitor!MonitorAssumption
    <3>2. Monitor!Idle \in Monitor!ReqType' /\ Monitor!Idle.at = "idle"
      BY <3>1 DEF Monitor!ReqType, Monitor!Idle
    <3> QED
      BY <3>1, <3>2
  <2> QED
    BY <2>1, <2>2, <2>3, MonitorSteps DEF Monitor!Next
<1> QED
  BY <1>1, <1>2, PTL DEF Monitor!Spec

\* A request that no other overtook since it read the list never puts an older
\* list over a newer one: the mutex orders the writes, and what it does not
\* cover is the time between the reading and it (InitNodeMonitor, NodeMonitor).
THEOREM OnlyTheOvertakenGoesBack == Monitor!Spec => OnlyOvertakenGoesBack
<1> DEFINE Ok == Monitor!GoesBack =>
                   \E p \in overtaken : req[p].at = "rename" /\ req'[p].at = "reload"
<1>1. MonitorInv /\ [Monitor!Next]_(Monitor!vars) => [Ok]_(Monitor!vars)
  <2> SUFFICES ASSUME MonitorInv, Monitor!Next, Monitor!GoesBack
               PROVE  \E p \in overtaken : req[p].at = "rename" /\ req'[p].at = "reload"
    BY DEF Monitor!vars, Monitor!GoesBack
  <2>1. nodes_yml \in 1..list /\ nodes_yml' \in 1..list /\ nodes_yml' < nodes_yml
    BY DEF Monitor!GoesBack
  <2>2. list \in Nat /\ nodes_yml' # nodes_yml
    BY <2>1 DEF MonitorInv, Monitor!Inv, Monitor!TypeOK
  <2>3. PICK p \in MonReq : Monitor!Rename(p)
    BY <2>2 DEF Monitor!Next, Monitor!Runs, Monitor!GetAllUseServerNode, Monitor!Lock,
                Monitor!Open, Monitor!WriteFile, Monitor!Reload, Monitor!Answered,
                Monitor!Change, Monitor!Restart
  <2>4. /\ req[p].at = "rename" /\ nodes_yml' = tmp
        /\ req' = [req EXCEPT ![p].at = "reload"]
    BY <2>2, <2>3 DEF Monitor!Rename, Monitor!Goes
  <2>5. req'[p].at = "reload"
    BY <2>4 DEF MonitorInv, Monitor!Inv, Monitor!TypeOK, Monitor!ReqType
  <2>6. tmp = req[p].v /\ req[p].v \in 0..list
    BY <2>4 DEF MonitorInv, Monitor!Inv, Monitor!FileIsWhole, Monitor!TypeOK,
                Monitor!ReqType
  <2>7. CASE p \notin overtaken
    <3>1. nodes_yml \in {None} \cup 1..req[p].v
      BY <2>4, <2>7 DEF MonitorInv, Monitor!Inv, Monitor!NotOvertakenIsNew
    <3>2. nodes_yml \in 1..req[p].v \/ nodes_yml = None
      BY <3>1
    <3>3. nodes_yml # None
      BY <2>1, <2>2, ProcessAssumption DEF Monitor!MonitorAssumption
    <3> QED
      BY <2>1, <2>2, <2>4, <2>6, <3>2, <3>3
  <2> QED
    BY <2>4, <2>5, <2>7
<1> QED
  BY <1>1, NodesFileIsWhole, PTL
     DEF Monitor!Spec, OnlyOvertakenGoesBack, Monitor!OnlyOvertakenGoesBack
==============================================================================
