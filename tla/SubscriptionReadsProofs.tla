----------------------- MODULE SubscriptionReadsProofs -----------------------
(***************************************************************************)
(* Proofs about SubscriptionReads, for every set of readers and items, for *)
(* every size of the buffer, of pages and of the store of cursors, and for *)
(* every number of events, generations and cursors.                        *)
(***************************************************************************)
EXTENDS SubscriptionReads, SequenceTheorems, FiniteSetTheorems, TLAPS

-----------------------------------------------------------------------------
(* What a chain of cursors has delivered.                                  *)

\* Each delivered event is one of the first m of the log.
FromLog(given, m, events) ==
  \A j \in 1..Len(given) : \E i \in 1..m : given[j] = events[i]

\* Two deliveries are two events, in the order of the log.
InOrder(given, m, events) ==
  \A j, k \in 1..Len(given) : j < k =>
    \E i, n \in 1..m : /\ i < n
                       /\ given[j] = events[i] /\ given[k] = events[n]

\* What a cursor says is true of the first offset events.
Sound(k, events) ==
  /\ k.offset <= Len(events)
  /\ ~k.told => k.given = SubSeq(events, 1, k.offset)
  /\ FromLog(k.given, k.offset, events)
  /\ InOrder(k.given, k.offset, events)

\* Nothing is delivered before the first read.
LEMMA NullSound ==
  ASSUME NEW events \in Seq(Event)
  PROVE  Sound(NullCursor, events)
  <1>1. Len(<<>>) = 0 /\ SubSeq(events, 1, 0) = <<>>
    BY SubSeqEmpty, EmptySeq
  <1>2. FromLog(<<>>, 0, events) /\ InOrder(<<>>, 0, events)
    BY <1>1 DEF FromLog, InOrder
  <1>3. Len(events) \in Nat
    BY LenProperties
  <1> QED
    BY <1>1, <1>2, <1>3 DEF Sound, NullCursor, Cursor

\* A prefix of the log is a sequence, of the length it says.
LEMMA Prefix ==
  ASSUME NEW events \in Seq(Event), NEW n \in Nat, n <= Len(events)
  PROVE  /\ SubSeq(events, 1, n) \in Seq(Event)
         /\ Len(SubSeq(events, 1, n)) = n
         /\ \A i \in 1..n : SubSeq(events, 1, n)[i] = events[i]
  <1>1. Len(events) \in Nat
    BY LenProperties
  <1>2. \A i \in 1..n : events[i] \in Event
    BY <1>1, ElementOfSeq
  <1> QED
    BY <1>2, SubSeqProperties

\* A longer log does not change what is true of its first events.
LEMMA SoundInLongerLog ==
  ASSUME NEW events \in Seq(Event), NEW e \in Event, NEW k \in CursorType,
         Sound(k, events)
  PROVE  Sound(k, Append(events, e))
  <1> DEFINE longer == Append(events, e)
  <1>1. /\ longer \in Seq(Event) /\ Len(longer) = Len(events) + 1
        /\ \A i \in 1..Len(events) : longer[i] = events[i]
        /\ Len(events) \in Nat
    BY AppendProperties, LenProperties
  <1>2. k.offset \in Nat /\ k.offset <= Len(events) /\ k.offset <= Len(longer)
    BY <1>1 DEF Sound, CursorType
  <1> HIDE DEF longer
  <1>3. \A i \in 1..k.offset : longer[i] = events[i]
    BY <1>1, <1>2
  <1>4. SubSeq(longer, 1, k.offset) = SubSeq(events, 1, k.offset)
    <2> DEFINE s == SubSeq(longer, 1, k.offset) t == SubSeq(events, 1, k.offset)
    <2>1. /\ s \in Seq(Event) /\ Len(s) = k.offset
          /\ \A i \in 1..k.offset : s[i] = longer[i]
      BY <1>1, <1>2, Prefix
    <2>2. /\ t \in Seq(Event) /\ Len(t) = k.offset
          /\ \A i \in 1..k.offset : t[i] = events[i]
      BY <1>2, Prefix
    <2> HIDE DEF s, t
    <2>3. \A i \in 1..Len(s) : s[i] = t[i]
      BY <1>3, <2>1, <2>2
    <2>4. s = t
      BY <2>1, <2>2, <2>3, SeqEqual
    <2> QED
      BY <2>4 DEF s, t
  <1>5. FromLog(k.given, k.offset, longer)
    BY <1>3 DEF Sound, FromLog
  <1>6. InOrder(k.given, k.offset, longer)
    BY <1>3 DEF Sound, InOrder
  <1> QED
    BY <1>2, <1>4, <1>5, <1>6 DEF Sound, longer

-----------------------------------------------------------------------------
(* A page and the cursor after it.                                         *)

\* The buffer is the end of the log.
IsWindow(b, events) ==
  /\ Len(b) <= Len(events)
  /\ \A i \in 1..Len(b) : b[i] = events[Len(events) - Len(b) + i]

\* A page is a piece of the log.
LEMMA PageIsLog ==
  ASSUME NEW events \in Seq(Event), NEW b \in Seq(Event), IsWindow(b, events),
         NEW low \in Int, 1 <= low, NEW high \in Int, low <= high + 1,
         high <= Len(b)
  PROVE  /\ SubSeq(b, low, high) \in Seq(Event)
         /\ Len(SubSeq(b, low, high)) = high - low + 1
         /\ \A i \in 1..(high - low + 1) :
              SubSeq(b, low, high)[i]
                = events[Len(events) - Len(b) + (low + i - 1)]
  <1>1. Len(events) \in Nat /\ Len(b) \in Nat
    BY LenProperties
  <1>2. \A i \in low..high : b[i] \in Event
    BY <1>1, ElementOfSeq
  <1>3. /\ SubSeq(b, low, high) \in Seq(Event)
        /\ Len(SubSeq(b, low, high)) = IF low <= high THEN high - low + 1 ELSE 0
        /\ \A i \in 1..(high - low + 1) :
             SubSeq(b, low, high)[i] = b[low + i - 1]
    BY <1>2, SubSeqProperties
  <1>4. \A i \in 1..(high - low + 1) :
          b[low + i - 1] = events[Len(events) - Len(b) + (low + i - 1)]
    <2> TAKE i \in 1..(high - low + 1)
    <2>1. low + i - 1 \in 1..Len(b)
      BY <1>1
    <2> QED
      BY <2>1 DEF IsWindow
  <1>5. Len(SubSeq(b, low, high)) = high - low + 1
    BY <1>3
  <1>6. \A i \in 1..(high - low + 1) :
          SubSeq(b, low, high)[i]
            = events[Len(events) - Len(b) + (low + i - 1)]
    BY <1>3, <1>4
  <1> QED
    BY <1>3, <1>5, <1>6

\* Whatever the offset, a page is a sequence of events of at most its limit.
LEMMA PageType ==
  ASSUME NEW b \in Seq(Event), NEW n \in Nat, Len(b) <= n,
         NEW first \in Nat, n - Len(b) <= first,
         NEW last \in Nat, last <= n
  PROVE  SubSeq(b, first - (n - Len(b)) + 1, last - (n - Len(b))) \in Seq(Event)
  <1> DEFINE low == first - (n - Len(b)) + 1
             high == last - (n - Len(b))
  <1>1. Len(b) \in Nat
    BY LenProperties
  <1>2. low \in Int /\ high \in Int /\ 1 <= low /\ high <= Len(b)
    BY <1>1
  <1>3. \A i \in low..high : b[i] \in Event
    BY <1>1, <1>2, ElementOfSeq
  <1> HIDE DEF low, high
  <1>4. SubSeq(b, low, high) \in Seq(Event)
    BY <1>2, <1>3, SubSeqProperties
  <1> QED
    BY <1>4 DEF low, high

\* An empty page leaves a chain as it is, told of a gap or not.
LEMMA SoundAfterNothing ==
  ASSUME NEW events \in Seq(Event), NEW k \in CursorType, Sound(k, events),
         NEW g \in Nat, NEW told \in BOOLEAN, k.told => told
  PROVE  Sound(Cursor(g, k.offset, k.given \o <<>>, told), events)
  <1>1. k.given \in Seq(Event)
    BY DEF CursorType
  <1>2. k.given \o <<>> = k.given
    BY <1>1, ConcatEmptySeq
  <1> QED
    BY <1>2 DEF Sound, Cursor

\* A page that begins at the offset, or after a gap that is told of, makes a
\* longer chain of which the same is true.
LEMMA SoundAfterPage ==
  ASSUME NEW events \in Seq(Event), NEW k \in CursorType, Sound(k, events),
         NEW g \in Nat, NEW told \in BOOLEAN, k.told => told,
         NEW first \in Nat, k.offset <= first, ~told => first = k.offset,
         NEW page \in Seq(Event), first + Len(page) <= Len(events),
         \A i \in 1..Len(page) : page[i] = events[first + i]
  PROVE  Sound(Cursor(g, first + Len(page), k.given \o page, told), events)
  <1> DEFINE given == k.given \o page
             offset == first + Len(page)
  <1>1. /\ k.given \in Seq(Event) /\ k.offset \in Nat
        /\ Len(k.given) \in Nat /\ Len(page) \in Nat /\ Len(events) \in Nat
    BY LenProperties DEF CursorType
  <1>2. /\ Len(given) = Len(k.given) + Len(page)
        /\ \A i \in 1..Len(given) : given[i] =
             IF i <= Len(k.given) THEN k.given[i] ELSE page[i - Len(k.given)]
    <2>1. /\ Len(k.given \o page) = Len(k.given) + Len(page)
          /\ \A i \in 1..(Len(k.given) + Len(page)) : (k.given \o page)[i] =
               IF i <= Len(k.given) THEN k.given[i]
               ELSE page[i - Len(k.given)]
      BY <1>1, ConcatProperties
    <2> QED
      BY <2>1
  <1>3. page = SubSeq(events, first + 1, offset)
    <2> DEFINE next == first + 1
               part == SubSeq(events, next, offset)
    <2>1. next \in Int /\ offset \in Int
      BY <1>1
    <2>2. \A i \in next..offset : events[i] \in Event
      BY <1>1, ElementOfSeq
    <2> HIDE DEF next, offset
    <2>3. /\ part \in Seq(Event)
          /\ Len(part) = IF next <= offset THEN offset - next + 1 ELSE 0
          /\ \A i \in 1..(offset - next + 1) : part[i] = events[next + i - 1]
      BY <2>1, <2>2, SubSeqProperties
    <2> HIDE DEF part
    <2>4. /\ Len(part) = Len(page)
          /\ \A i \in 1..Len(page) : part[i] = events[next + i - 1]
      <3>1. offset - next + 1 = Len(page) /\ Len(page) \in Nat
        BY <1>1 DEF next, offset
      <3>2. next <= offset \/ Len(page) = 0
        BY <1>1 DEF next, offset
      <3> QED
        BY <2>1, <2>3, <3>1, <3>2
    <2>5. \A i \in 1..Len(page) : next + i - 1 = first + i
      BY <1>1 DEF next
    <2>6. \A i \in 1..Len(page) : part[i] = page[i]
      BY <2>4, <2>5
    <2>7. part = page
      BY <2>3, <2>4, <2>6, SeqEqual
    <2> QED
      BY <2>7 DEF part, next
  <1>3a. ASSUME ~told PROVE given = SubSeq(events, 1, offset)
    <2>1. k.given = SubSeq(events, 1, first) /\ first \in 0..Len(events)
      BY <1>1, <1>3a DEF Sound
    <2>2. /\ 1 \in 1..Len(events) + 1 /\ first \in 1 - 1..Len(events)
          /\ offset \in first..Len(events)
      BY <1>1, <2>1
    <2>3. SubSeq(events, 1, first) \o SubSeq(events, first + 1, offset)
            = SubSeq(events, 1, offset)
      BY <2>2, ConcatAdjacentSubSeq
    <2> QED
      BY <1>3, <2>1, <2>3
  <1> DEFINE before == Len(k.given)
             count == Len(given)
  <1>4. /\ before \in Nat /\ count \in Nat /\ before <= count
        /\ offset \in Nat /\ k.offset \in Nat
        /\ k.offset <= first /\ first <= offset
        /\ count - before = offset - first
    BY <1>1, <1>2
  \* the place in the log of a delivery: an old one before first, a new one
  \* after it
  <1>5. \A j \in 1..before :
          given[j] = k.given[j] /\ \E i \in 1..k.offset : given[j] = events[i]
    <2>1. \A j \in 1..before : given[j] = k.given[j]
      BY <1>1, <1>2
    <2> QED
      BY <2>1 DEF Sound, FromLog
  <1>6. \A j \in (before + 1)..count : given[j] = events[first + (j - before)]
    <2> TAKE j \in (before + 1)..count
    <2>1. j - Len(k.given) \in 1..Len(page)
      BY <1>1, <1>2
    <2>2. given[j] = page[j - Len(k.given)]
      BY <1>1, <1>2
    <2>3. page[j - Len(k.given)] = events[first + (j - Len(k.given))]
      BY <2>1
    <2> QED
      BY <2>2, <2>3
  <1>7. \A j, l \in 1..before : j < l => \E i, n \in 1..k.offset :
          i < n /\ given[j] = events[i] /\ given[l] = events[n]
    <2>1. \A j, l \in 1..before : j < l => \E i, n \in 1..k.offset :
            i < n /\ k.given[j] = events[i] /\ k.given[l] = events[n]
      BY DEF Sound, InOrder
    <2> QED
      BY <1>5, <2>1
  <1> HIDE DEF before, count, given, offset
  <1>8. \A j \in (before + 1)..count :
          first + (j - before) \in (first + 1)..offset
    BY <1>4
  <1>9. 1..k.offset \subseteq 1..offset
    BY <1>4
  <1>10. FromLog(given, offset, events)
    <2> SUFFICES ASSUME NEW j \in 1..count
                 PROVE  \E i \in 1..offset : given[j] = events[i]
      BY DEF FromLog, count
    <2>1. CASE j \in 1..before
      BY <1>5, <1>9, <2>1
    <2>2. CASE j \in (before + 1)..count
      <3>1. first + (j - before) \in 1..offset
        BY <1>4, <1>8, <2>2
      <3> QED
        BY <1>6, <2>2, <3>1
    <2> QED
      BY <1>4, <2>1, <2>2
  <1>11. InOrder(given, offset, events)
    <2> SUFFICES ASSUME NEW j \in 1..count, NEW l \in 1..count, j < l
                 PROVE  \E i, n \in 1..offset :
                          /\ i < n
                          /\ given[j] = events[i] /\ given[l] = events[n]
      BY DEF InOrder, count
    <2>1. CASE l \in 1..before
      <3>1. j \in 1..before
        BY <1>4, <2>1
      <3> QED
        BY <1>7, <1>9, <2>1, <3>1
    <2>2. CASE l \in (before + 1)..count /\ j \in 1..before
      <3>1. PICK i \in 1..k.offset : given[j] = events[i]
        BY <1>5, <2>2
      <3>2. first + (l - before) \in (first + 1)..offset
        BY <1>8, <2>2
      <3>3. /\ i \in 1..offset /\ first + (l - before) \in 1..offset
            /\ i < first + (l - before)
        BY <1>4, <3>2
      <3>4. given[l] = events[first + (l - before)]
        BY <1>6, <2>2
      <3> QED
        BY <3>1, <3>3, <3>4
    <2>3. CASE j \in (before + 1)..count
      <3>1. l \in (before + 1)..count
        BY <1>4, <2>3
      <3>2. /\ given[j] = events[first + (j - before)]
            /\ given[l] = events[first + (l - before)]
        BY <1>6, <2>3, <3>1
      <3>3. /\ first + (j - before) \in (first + 1)..offset
            /\ first + (l - before) \in (first + 1)..offset
        BY <1>8, <2>3, <3>1
      <3>4. /\ first + (j - before) \in 1..offset
            /\ first + (l - before) \in 1..offset
            /\ first + (j - before) < first + (l - before)
        BY <1>4, <3>3
      <3> QED
        BY <3>2, <3>4
    <2> QED
      BY <1>4, <2>1, <2>2, <2>3
  <1> DEFINE k2 == Cursor(g, offset, given, told)
  <1>12. k2.offset = offset /\ k2.given = given /\ k2.told = told
    BY DEF Cursor
  <1>13. offset <= Len(events)
    BY DEF offset
  <1> QED
    BY <1>3a, <1>10, <1>11, <1>12, <1>13 DEF Sound, given, offset

-----------------------------------------------------------------------------
(* The inductive invariant.                                                *)

OffsetOf(c) == IF c = NoCursor THEN 0 ELSE cursor[c].offset

\* Every cursor that was ever minted says the truth about its generation,
\* whether it is still in the registry or not: a long poll may hold it.
CursorsSound ==
  \A c \in 1..minted :
    /\ cursor[c].generation <= generation
    /\ cursor[c].generation = generation => Sound(cursor[c], log)

\* A suspended read holds a minted cursor and the offset it says.
ReadersSound ==
  \A r \in Readers : /\ reader[r].cursor \in 0..minted
                     /\ reader[r].offset = OffsetOf(reader[r].cursor)

IInv ==
  TypeOK /\ WindowSound /\ CursorsSound /\ ReadersSound /\ NoLostWakeup

LEMMA InitIInv == Init => IInv
  <1> SUFFICES ASSUME Init PROVE IInv
    OBVIOUS
  <1>1. <<>> \in Seq(Event) /\ Len(<<>>) = 0
    BY EmptySeq
  <1>2. NullCursor \in CursorType
    BY <1>1 DEF NullCursor, Cursor, CursorType
  <1>3. TypeOK
    <2>1. cursor \in [Ids -> CursorType]
      BY <1>2 DEF Init
    <2>2. reader \in [Readers -> ReaderType]
      BY DEF Init, Idle, Reader, ReaderType, NoCursor
    <2>3. minted \in 0..MaxMinted /\ live \subseteq 1..minted
      BY ReadsAssumption DEF Init
    <2>4. /\ sequence \in [Items -> Nat] /\ latest \in [Items -> Nat]
          /\ buffer \in Seq(Event) /\ log \in Seq(Event)
          /\ lapsed \subseteq live
      BY <1>1 DEF Init
    <2>5. /\ status \in {"LIVE"} \cup EndedStatuses
          /\ generation \in Nat \ {0}
          /\ total \in Nat /\ dropped \in Nat
      BY DEF Init
    <2>6. replacing \in BOOLEAN /\ restoring \subseteq Nat /\ fed \in BOOLEAN
      BY DEF Init
    <2> QED
      BY <2>1, <2>2, <2>3, <2>4, <2>5, <2>6 DEF TypeOK
  <1>4. WindowSound
    BY <1>1, ReadsAssumption DEF Init, WindowSound
  <1>5. CursorsSound
    <2>1. 1..minted = {}
      BY DEF Init
    <2> QED
      BY <2>1 DEF CursorsSound
  <1>6. ReadersSound
    BY DEF Init, ReadersSound, OffsetOf, Idle, Reader, NoCursor
  <1>7. NoLostWakeup
    BY DEF Init, NoLostWakeup, Waiting, Idle, Reader
  <1> QED
    BY <1>3, <1>4, <1>5, <1>6, <1>7 DEF IInv

-----------------------------------------------------------------------------
(* Steps that leave the buffer and the cursors alone.                      *)

\* Waking a reader keeps its cursor and its offset.
LEMMA WokenReaders ==
  ASSUME TypeOK
  PROVE  /\ Woken \in [Readers -> ReaderType]
         /\ \A r \in Readers : /\ Woken[r].cursor = reader[r].cursor
                               /\ Woken[r].offset = reader[r].offset
                               /\ Woken[r].stage # "WAITING"
  <1>1. ASSUME NEW r \in Readers
        PROVE  /\ Woken[r] \in ReaderType
               /\ Woken[r].cursor = reader[r].cursor
               /\ Woken[r].offset = reader[r].offset
               /\ Woken[r].stage # "WAITING"
    <2>1. reader[r] \in ReaderType
      BY DEF TypeOK
    <2>2. CASE r \in Waiting
      BY <2>1, <2>2 DEF Woken, ReaderType
    <2>3. CASE r \notin Waiting
      BY <2>1, <2>3 DEF Woken, ReaderType, Waiting
    <2> QED
      BY <2>2, <2>3
  <1> QED
    BY <1>1 DEF Woken

\* The registry may lose handles as long as it makes none.
LEMMA FewerHandles ==
  ASSUME IInv, live' \subseteq live, lapsed' \subseteq live',
         UNCHANGED <<groupVars, bufferVars, minted, cursor, reader>>
  PROVE  IInv'
  <1> USE DEF IInv, groupVars, bufferVars
  <1>1. TypeOK'
    BY DEF TypeOK
  <1>2. WindowSound' /\ CursorsSound' /\ ReadersSound' /\ NoLostWakeup'
    BY DEF WindowSound, CursorsSound, ReadersSound, NoLostWakeup, Waiting,
           OffsetOf
  <1> QED
    BY <1>1, <1>2

\* So do steps of readers that keep what they hold and do not fall asleep.
LEMMA ReadersStay ==
  ASSUME IInv, reader' \in [Readers -> ReaderType],
         \A r \in Readers : /\ reader'[r].cursor = reader[r].cursor
                            /\ reader'[r].offset = reader[r].offset
                            /\ reader'[r].stage = "WAITING" =>
                                 reader[r].stage = "WAITING",
         UNCHANGED <<generation, bufferVars, minted, cursor>>,
         live' \subseteq live, lapsed' \subseteq live',
         status' \in {"LIVE"} \cup EndedStatuses, replacing' \in BOOLEAN,
         restoring' \subseteq Nat, fed' \in BOOLEAN
  PROVE  IInv'
  <1> USE DEF IInv, bufferVars
  <1>1. TypeOK'
    BY DEF TypeOK
  <1>2. WindowSound' /\ CursorsSound'
    BY DEF WindowSound, CursorsSound
  <1>3. ReadersSound'
    BY DEF ReadersSound, OffsetOf
  <1>4. NoLostWakeup'
    BY DEF NoLostWakeup, Waiting
  <1> QED
    BY <1>1, <1>2, <1>3, <1>4

LEMMA StatusEventStep == ASSUME IInv, StatusEvent PROVE IInv'
  BY WokenReaders, ReadersStay
     DEF StatusEvent, IInv, TypeOK, groupVars, bufferVars, cursorVars

LEMMA CursorLapsesStep ==
  ASSUME IInv, NEW c \in Ids, CursorLapses(c) PROVE IInv'
  BY FewerHandles DEF CursorLapses, IInv, TypeOK

LEMMA LapsedCursorRefusedStep ==
  ASSUME IInv, NEW c \in Ids, LapsedCursorRefused(c) PROVE IInv'
  BY FewerHandles DEF LapsedCursorRefused, IInv, TypeOK

LEMMA PollTimesOutStep ==
  ASSUME IInv, NEW r \in Readers, PollTimesOut(r) PROVE IInv'
  <1>1. reader \in [Readers -> ReaderType]
    BY DEF IInv, TypeOK
  <1>2. /\ reader' \in [Readers -> ReaderType]
        /\ \A s \in Readers : /\ reader'[s].cursor = reader[s].cursor
                              /\ reader'[s].offset = reader[s].offset
                              /\ reader'[s].stage = "WAITING" =>
                                   reader[s].stage = "WAITING"
    BY <1>1 DEF PollTimesOut, ReaderType
  <1> QED
    BY <1>2, ReadersStay
       DEF PollTimesOut, IInv, TypeOK, groupVars, bufferVars, cursorVars

LEMMA AbandonStep ==
  ASSUME IInv, NEW r \in Readers, Abandon(r) PROVE IInv'
  <1> USE DEF IInv, Abandon, groupVars, bufferVars, cursorVars
  <1>1. Idle \in ReaderType
    BY DEF Idle, Reader, ReaderType, NoCursor
  <1>2. TypeOK'
    BY <1>1 DEF TypeOK
  <1>3. WindowSound' /\ CursorsSound'
    BY DEF WindowSound, CursorsSound
  <1>4. ReadersSound' /\ NoLostWakeup'
    <2>1. minted \in Nat
      BY DEF TypeOK
    <2> QED
      BY <2>1 DEF TypeOK, ReadersSound, NoLostWakeup, Waiting, OffsetOf, Idle,
                  Reader, NoCursor
  <1> QED
    BY <1>2, <1>3, <1>4

LEMMA ResubscribeBeginsStep == ASSUME IInv, ResubscribeBegins PROVE IInv'
  BY ReadersStay
     DEF ResubscribeBegins, IInv, TypeOK, bufferVars, cursorVars

LEMMA CancelStep == ASSUME IInv, Cancel PROVE IInv'
  BY WokenReaders, ReadersStay
     DEF Cancel, Invalidate, IInv, TypeOK, bufferVars, EndedStatuses

LEMMA ExpireStep == ASSUME IInv, Expire PROVE IInv'
  BY ReadersStay
     DEF Expire, Invalidate, IInv, TypeOK, bufferVars, EndedStatuses

-----------------------------------------------------------------------------
(* A new generation.                                                       *)

\* What the old generation said is no longer a statement about this one.
LEMMA NewGeneration ==
  ASSUME IInv, generation' = generation + 1, Reset, Invalidate,
         status' \in {"LIVE"} \cup EndedStatuses, replacing' \in BOOLEAN,
         restoring' \subseteq Nat, fed' \in BOOLEAN,
         UNCHANGED <<dropped, reader>>
  PROVE  IInv'
  <1> USE DEF IInv, Reset, Invalidate
  <1>1. <<>> \in Seq(Event) /\ Len(<<>>) = 0
    BY EmptySeq
  <1>2. TypeOK'
    BY <1>1 DEF TypeOK
  <1>3. WindowSound'
    BY <1>1, ReadsAssumption DEF TypeOK, WindowSound
  <1>4. CursorsSound'
    <2>1. minted' = minted /\ cursor' = cursor
      OBVIOUS
    <2>2. ASSUME NEW c \in 1..minted
          PROVE  /\ cursor[c].generation <= generation + 1
                 /\ cursor[c].generation # generation + 1
      <3>1. c \in Ids
        BY ReadsAssumption DEF TypeOK, Ids
      <3>2. cursor[c].generation \in Nat /\ generation \in Nat
        BY <3>1 DEF TypeOK, CursorType
      <3>3. cursor[c].generation <= generation
        BY DEF CursorsSound
      <3> QED
        BY <3>2, <3>3
    <2> QED
      BY <2>1, <2>2 DEF CursorsSound
  <1>5. ReadersSound'
    BY DEF ReadersSound, OffsetOf
  <1>6. NoLostWakeup'
    <2> SUFFICES ASSUME NEW r \in Readers PROVE 0 <= reader[r].offset
      BY DEF NoLostWakeup, Waiting
    <2>1. reader[r].offset \in Nat
      BY DEF TypeOK, ReaderType
    <2> QED
      BY <2>1
  <1> QED
    BY <1>2, <1>3, <1>4, <1>5, <1>6

LEMMA ReplaceStep == ASSUME IInv, Replace PROVE IInv'
  <1>1. CASE ResubscribeBegins
    BY <1>1, ResubscribeBeginsStep
  <1>2. CASE ResubscribeCommits
    BY <1>2, NewGeneration DEF ResubscribeCommits, IInv, TypeOK
  <1>3. CASE Restore
    BY <1>3, NewGeneration DEF Restore, IInv, TypeOK
  <1>4. ASSUME NEW g \in restoring, RestoreReturns(g)
        PROVE  IInv'
    BY <1>4, ReadersStay
       DEF RestoreReturns, IInv, TypeOK, bufferVars, cursorVars
  <1> QED
    BY <1>1, <1>2, <1>3, <1>4 DEF Replace

-----------------------------------------------------------------------------
(* An event.                                                               *)

\* The buffer stays the end of the log, and full once it was full.
LEMMA WindowMoves ==
  ASSUME IInv, NEW e \in Event, buffer' = Append(Room(buffer), e),
         log' = Append(log, e), total' = total + 1,
         dropped' = IF Len(buffer) >= BufferSize THEN dropped + 1 ELSE dropped
  PROVE  /\ buffer' \in Seq(Event) /\ log' \in Seq(Event)
         /\ WindowSound'
  <1>1. /\ buffer \in Seq(Event) /\ log \in Seq(Event)
        /\ Len(buffer) \in Nat /\ Len(log) \in Nat
        /\ total \in Nat /\ dropped \in Nat
        /\ BufferSize \in Nat \ {0}
    BY LenProperties, ReadsAssumption DEF IInv, TypeOK
  <1>2. /\ total = Len(log) /\ Len(buffer) <= BufferSize
        /\ Len(buffer) <= total /\ Len(buffer) \in {total, BufferSize}
        /\ \A k \in 1..Len(buffer) : buffer[k] = log[total - Len(buffer) + k]
        /\ dropped >= total - Len(buffer)
    BY DEF IInv, WindowSound
  <1>3. /\ log' \in Seq(Event) /\ Len(log') = Len(log) + 1
        /\ \A k \in 1..Len(log) : log'[k] = log[k]
        /\ log'[Len(log) + 1] = e
    BY <1>1, AppendProperties
  <1>4. CASE Len(buffer) >= BufferSize
    <2> DEFINE rest == Tail(buffer)
    <2>1. buffer # <<>>
      BY <1>1, <1>4, EmptySeq
    <2>2. /\ rest \in Seq(Event) /\ Len(rest) = Len(buffer) - 1
          /\ \A i \in 1..Len(rest) : rest[i] = buffer[i + 1]
      BY <1>1, <2>1, HeadTailProperties
    <2>3. Room(buffer) = rest
      BY <1>4 DEF Room
    <2> HIDE DEF rest
    <2>4. /\ buffer' \in Seq(Event) /\ Len(buffer') = Len(rest) + 1
          /\ \A i \in 1..Len(rest) : buffer'[i] = rest[i]
          /\ buffer'[Len(rest) + 1] = e
      BY <2>2, <2>3, AppendProperties
    <2>5. /\ Len(buffer') = BufferSize /\ Len(buffer) = BufferSize
          /\ Len(rest) = BufferSize - 1
      BY <1>1, <1>2, <1>4, <2>2, <2>4
    <2>6. \A k \in 1..Len(buffer') :
            buffer'[k] = log'[total' - Len(buffer') + k]
      <3> TAKE k \in 1..Len(buffer')
      <3>1. CASE k = BufferSize
        <4>1. total' - Len(buffer') + k = Len(log) + 1
          BY <1>1, <1>2, <2>5, <3>1
        <4>2. buffer'[k] = e
          BY <1>1, <2>4, <2>5, <3>1
        <4> QED
          BY <1>3, <4>1, <4>2
      <3>2. CASE k # BufferSize
        <4>1. k \in 1..Len(rest) /\ k + 1 \in 1..Len(buffer)
          BY <1>1, <2>5, <3>2
        <4>2. buffer'[k] = buffer[k + 1]
          BY <2>2, <2>4, <4>1
        <4>3. buffer[k + 1] = log[total - Len(buffer) + (k + 1)]
          BY <1>2, <4>1
        <4>4. total - Len(buffer) + (k + 1) \in 1..Len(log)
          BY <1>1, <1>2, <4>1
        <4>5. total' - Len(buffer') + k = total - Len(buffer) + (k + 1)
          BY <1>1, <2>5, <4>1
        <4> QED
          BY <1>3, <4>2, <4>3, <4>4, <4>5
      <3> QED
        BY <3>1, <3>2
    <2>7. /\ total' = Len(log') /\ BufferSize <= total'
          /\ dropped' >= total' - Len(buffer')
      BY <1>1, <1>2, <1>3, <1>4, <2>5
    <2>8. Len(buffer') <= total' /\ Len(buffer') <= BufferSize
            /\ Len(buffer') \in {total', BufferSize}
      BY <1>1, <1>2, <1>4, <2>5
    <2>9. WindowSound'
      BY <2>6, <2>7, <2>8 DEF WindowSound
    <2> QED
      BY <1>3, <2>4, <2>9
  <1>5. CASE ~(Len(buffer) >= BufferSize)
    <2>1. Room(buffer) = buffer
      BY <1>5 DEF Room
    <2>2. /\ buffer' \in Seq(Event) /\ Len(buffer') = Len(buffer) + 1
          /\ \A i \in 1..Len(buffer) : buffer'[i] = buffer[i]
          /\ buffer'[Len(buffer) + 1] = e
      BY <1>1, <2>1, AppendProperties
    <2>4. \A k \in 1..Len(buffer') :
            buffer'[k] = log'[total' - Len(buffer') + k]
      <3> TAKE k \in 1..Len(buffer')
      <3>0. total' - Len(buffer') + k = total - Len(buffer) + k
        BY <1>1, <2>2
      <3>1. CASE k = Len(buffer) + 1
        <4>1. total - Len(buffer) + k = Len(log) + 1
          BY <1>1, <1>2, <3>1
        <4> QED
          BY <1>3, <2>2, <3>0, <3>1, <4>1
      <3>2. CASE k # Len(buffer) + 1
        <4>1. k \in 1..Len(buffer)
          BY <1>1, <2>2, <3>2
        <4>2. total - Len(buffer) + k \in 1..Len(log)
          BY <1>1, <1>2, <4>1
        <4> QED
          BY <1>2, <1>3, <2>2, <3>0, <4>1, <4>2
      <3> QED
        BY <3>1, <3>2
    <2>5. /\ total' = Len(log') /\ dropped' >= total' - Len(buffer')
          /\ Len(buffer') = total' /\ total' <= BufferSize
      BY <1>1, <1>2, <1>3, <1>5, <2>2
    <2>6. Len(buffer') <= total' /\ Len(buffer') <= BufferSize
            /\ Len(buffer') \in {total', BufferSize}
      BY <1>1, <2>5
    <2>7. WindowSound'
      BY <2>4, <2>5, <2>6 DEF WindowSound
    <2> QED
      BY <1>3, <2>2, <2>7
  <1> QED
    BY <1>4, <1>5

LEMMA DataEventStep ==
  ASSUME IInv, NEW i \in Items, DataEvent(i) PROVE IInv'
  <1> DEFINE e == [item |-> i, seq |-> sequence[i] + 1]
  <1>1. sequence[i] \in Nat /\ total \in Nat
    BY DEF IInv, TypeOK
  <1>2. e \in Event
    BY <1>1 DEF Event
  <1>3. /\ buffer' = Append(Room(buffer), e) /\ log' = Append(log, e)
        /\ total' = total + 1 /\ reader' = Woken
        /\ dropped' = IF Len(buffer) >= BufferSize THEN dropped + 1
                      ELSE dropped
        /\ UNCHANGED <<status, generation, replacing, restoring, fed, minted,
                       cursor, live, lapsed>>
    BY DEF DataEvent, groupVars, cursorVars
  <1>4. buffer' \in Seq(Event) /\ log' \in Seq(Event) /\ WindowSound'
    BY <1>2, <1>3, WindowMoves
  <1>5. TypeOK'
    <2>1. /\ sequence' \in [Items -> Nat] /\ latest' \in [Items -> Nat]
          /\ total' \in Nat /\ dropped' \in Nat
      BY <1>1 DEF DataEvent, IInv, TypeOK
    <2>2. reader' \in [Readers -> ReaderType]
      BY <1>3, WokenReaders DEF IInv
    <2> QED
      BY <1>3, <1>4, <2>1, <2>2 DEF IInv, TypeOK
  <1>6. CursorsSound'
    <2>1. ASSUME NEW c \in 1..minted, cursor[c].generation = generation
          PROVE  Sound(cursor[c], Append(log, e))
      <3>1. c \in Ids
        BY ReadsAssumption DEF IInv, TypeOK, Ids
      <3>2. cursor[c] \in CursorType /\ log \in Seq(Event)
        BY <3>1 DEF IInv, TypeOK
      <3>3. Sound(cursor[c], log)
        BY <2>1 DEF IInv, CursorsSound
      <3> QED
        BY <1>2, <3>2, <3>3, SoundInLongerLog
    <2> HIDE DEF e
    <2> QED
      BY <1>3, <2>1 DEF IInv, CursorsSound
  <1>7. ReadersSound' /\ NoLostWakeup'
    BY <1>3, WokenReaders
       DEF IInv, ReadersSound, NoLostWakeup, Waiting, OffsetOf
  <1> QED
    BY <1>4, <1>5, <1>6, <1>7 DEF IInv

-----------------------------------------------------------------------------
(* A read.                                                                 *)

\* Whoever may be evicted, nobody else comes in.
LEMMA EvictedFrom == ASSUME NEW L PROVE Evicted(L) \subseteq L
  BY DEF Evicted

\* The cursor that a read leaves, from the one it came with.
ChainOf(c) == IF c = NoCursor THEN NullCursor ELSE cursor[c]

LEMMA ChainTypes ==
  ASSUME IInv, NEW c \in 0..minted
  PROVE  /\ ChainOf(c) \in CursorType
         /\ ChainOf(c).offset = OffsetOf(c)
         /\ OffsetOf(c) \in Nat
         /\ MintedGeneration(c) \in Nat /\ MintedGeneration(c) <= generation
         /\ MintedGeneration(c) = generation => Sound(ChainOf(c), log)
  <1>1. log \in Seq(Event) /\ generation \in Nat /\ minted \in 0..MaxMinted
    BY DEF IInv, TypeOK
  <1>2. CASE c = NoCursor
    <2>1. NullCursor \in CursorType /\ NullCursor.offset = 0
      BY EmptySeq DEF NullCursor, Cursor, CursorType
    <2>2. Sound(NullCursor, log)
      BY <1>1, NullSound
    <2> QED
      BY <1>1, <1>2, <2>1, <2>2 DEF ChainOf, OffsetOf, MintedGeneration
  <1>3. CASE c # NoCursor
    <2>1. c \in 1..minted /\ c \in Ids
      BY <1>1, <1>3, ReadsAssumption DEF NoCursor, Ids
    <2>2. cursor[c] \in CursorType
      BY <2>1 DEF IInv, TypeOK
    <2>3. /\ cursor[c].offset \in Nat /\ cursor[c].generation \in Nat
      BY <2>2 DEF CursorType
    <2> QED
      BY <1>3, <2>1, <2>2, <2>3
         DEF IInv, CursorsSound, ChainOf, OffsetOf, MintedGeneration
  <1> QED
    BY <1>2, <1>3

\* The page that is served from an offset, and the cursor after it.
LEMMA PageServed ==
  ASSUME IInv, NEW c \in 0..minted, NEW limit \in Nat \ {0}
  PROVE  LET offset == OffsetOf(c)
             base == total - Len(buffer)
             first == IF offset < base THEN base ELSE offset
             last == IF first + limit < total THEN first + limit ELSE total
             page == SubSeq(buffer, first - base + 1, last - base)
             next == Cursor(MintedGeneration(c),
                            NewOffset(offset, first, page),
                            ChainOf(c).given \o page,
                            ChainOf(c).told \/ Gap(offset, base))
         IN  /\ next \in CursorType
             /\ next.generation = MintedGeneration(c)
             /\ MintedGeneration(c) = generation => Sound(next, log)
  <1> DEFINE offset == OffsetOf(c)
             base == total - Len(buffer)
             first == IF offset < base THEN base ELSE offset
             last == IF first + limit < total THEN first + limit ELSE total
             page == SubSeq(buffer, first - base + 1, last - base)
             told == ChainOf(c).told \/ Gap(offset, base)
             next == Cursor(MintedGeneration(c), NewOffset(offset, first, page),
                            ChainOf(c).given \o page, told)
  <1>1. /\ buffer \in Seq(Event) /\ log \in Seq(Event)
        /\ Len(buffer) \in Nat /\ total \in Nat /\ BufferSize \in Nat \ {0}
    BY LenProperties, ReadsAssumption DEF IInv, TypeOK
  <1>2. /\ total = Len(log) /\ Len(buffer) <= total
        /\ IsWindow(buffer, log)
    BY <1>1 DEF IInv, WindowSound, IsWindow
  <1>3. /\ ChainOf(c) \in CursorType /\ ChainOf(c).offset = offset
        /\ offset \in Nat /\ MintedGeneration(c) \in Nat
        /\ ChainOf(c).given \in Seq(Event) /\ ChainOf(c).told \in BOOLEAN
    BY ChainTypes DEF CursorType
  <1>4. /\ base \in Nat /\ base <= total
        /\ first \in Nat /\ base <= first /\ offset <= first
        /\ last \in Nat /\ last <= total
    BY <1>1, <1>2, <1>3
  <1>5. page \in Seq(Event)
    BY <1>1, <1>2, <1>4, PageType
  <1>6. told \in BOOLEAN /\ (ChainOf(c).told => told)
    BY <1>3 DEF Gap
  <1>7. ~told => first = offset
    BY <1>3, <1>4 DEF Gap
  <1> HIDE DEF base, first, last, page, offset, told
  <1>8. NewOffset(offset, first, page) \in Nat
    BY <1>3, <1>4, <1>5, LenProperties DEF NewOffset
  <1>9. next \in CursorType
    <2>1. ChainOf(c).given \o page \in Seq(Event)
      BY <1>3, <1>5, ConcatProperties
    <2> QED
      BY <1>3, <1>6, <1>8, <2>1 DEF Cursor, CursorType
  <1>10. ASSUME MintedGeneration(c) = generation PROVE Sound(next, log)
    <2>1. Sound(ChainOf(c), log)
      BY <1>10, ChainTypes
    <2>2. offset <= total
      BY <1>2, <1>3, <2>1 DEF Sound
    <2>3. first <= total /\ first <= last
      BY <1>1, <1>4, <2>2 DEF first, last
    <2> DEFINE low == first - base + 1
               high == last - base
    <2>4. /\ low \in Int /\ 1 <= low /\ low <= high + 1
          /\ high \in Int /\ high <= Len(buffer)
          /\ high - low + 1 = last - first
      BY <1>1, <1>2, <1>4, <2>3 DEF base
    <2>4a. page = SubSeq(buffer, low, high)
      BY DEF page
    <2>4b. \A i \in 1..(high - low + 1) :
             Len(log) - Len(buffer) + (low + i - 1) = first + i
      BY <1>1, <1>2, <1>4 DEF base
    <2> HIDE DEF low, high, next
    <2>4c. Len(page) = last - first
      BY <1>1, <1>2, <2>4, <2>4a, PageIsLog
    <2>4d. \A i \in 1..(high - low + 1) :
             page[i] = log[Len(log) - Len(buffer) + (low + i - 1)]
      <3>1. \A i \in 1..(high - low + 1) :
              SubSeq(buffer, low, high)[i]
                = log[Len(log) - Len(buffer) + (low + i - 1)]
        BY <1>1, <1>2, <2>4, PageIsLog
      <3> QED
        BY <2>4a, <3>1
    <2>4e. \A i \in 1..Len(page) : page[i] = log[first + i]
      BY <2>4, <2>4c, <2>4b, <2>4d
    <2> USE DEF next
    <2>5. CASE page = <<>>
      <3>1. next = Cursor(MintedGeneration(c), offset,
                          ChainOf(c).given \o <<>>, told)
        BY <2>5 DEF NewOffset
      <3> QED
        BY <1>1, <1>3, <1>6, <2>1, <3>1, SoundAfterNothing
    <2>6. CASE page # <<>>
      <3>1. Len(page) \in Nat /\ first + Len(page) = last
        BY <1>4, <1>5, <2>4c, LenProperties
      <3>2. next = Cursor(MintedGeneration(c), first + Len(page),
                          ChainOf(c).given \o page, told)
        BY <2>6 DEF NewOffset
      <3>3. /\ first + Len(page) <= Len(log)
            /\ ~told => first = ChainOf(c).offset
            /\ ChainOf(c).offset <= first
        BY <1>2, <1>3, <1>4, <1>7, <3>1
      <3> HIDE DEF next
      <3> QED
        BY <1>1, <1>3, <1>4, <1>5, <1>6, <2>1, <2>4e, <3>2, <3>3,
           SoundAfterPage
    <2> QED
      BY <2>5, <2>6
  <1>11. next.generation = MintedGeneration(c)
    BY DEF Cursor
  <1> QED
    BY <1>9, <1>10, <1>11 DEF base, first, last, page, offset, told

LEMMA ServeStep ==
  ASSUME IInv, NEW r \in Readers, NEW c \in 0..minted,
         Serve(r, c, OffsetOf(c))
  PROVE  IInv'
  <1>1. PICK limit \in Limits :
          LET offset == OffsetOf(c)
              base == total - Len(buffer)
              first == IF offset < base THEN base ELSE offset
              last == IF first + limit < total THEN first + limit ELSE total
              page == SubSeq(buffer, first - base + 1, last - base)
          IN  /\ Mint(c, Cursor(MintedGeneration(c),
                                NewOffset(offset, first, page),
                                ChainOf(c).given \o page,
                                ChainOf(c).told \/ Gap(offset, base)))
              /\ reader' = [reader EXCEPT ![r] = Idle]
              /\ UNCHANGED <<groupVars, bufferVars>>
    BY DEF Serve, ChainOf
  <1>2. limit \in Nat \ {0}
    BY ReadsAssumption
  <1>3. PICK next \in CursorType :
          /\ Mint(c, next)
          /\ next.generation = MintedGeneration(c)
          /\ MintedGeneration(c) = generation => Sound(next, log)
    BY <1>1, <1>2, PageServed
  <1>4. /\ minted \in 0..MaxMinted /\ minted' = minted + 1
        /\ minted' \in 0..MaxMinted /\ minted + 1 \in Ids
        /\ cursor' = [cursor EXCEPT ![minted + 1] = next]
        /\ live \subseteq 1..minted /\ cursor \in [Ids -> CursorType]
    BY <1>3, ReadsAssumption DEF IInv, TypeOK, Mint, Ids
  <1>5. /\ UNCHANGED <<status, generation, replacing, restoring, fed, sequence,
                       total, buffer, latest, dropped, log>>
        /\ reader' = [reader EXCEPT ![r] = Idle]
    BY <1>1 DEF groupVars, bufferVars
  <1>6. live' \subseteq 1..minted' /\ lapsed' \subseteq live'
    <2>1. /\ live' \subseteq (live \ {c}) \cup {minted + 1}
          /\ lapsed' = lapsed \cap live'
      BY <1>3, EvictedFrom DEF Mint
    <2> QED
      BY <1>4, <2>1
  <1>7. cursor' \in [Ids -> CursorType]
    BY <1>4
  <1>8. /\ \A d \in 1..minted : cursor'[d] = cursor[d]
        /\ cursor'[minted + 1] = next
    BY <1>4 DEF Ids
  <1>9. TypeOK'
    <2>1. Idle \in ReaderType
      BY DEF Idle, Reader, ReaderType, NoCursor
    <2>2. reader' \in [Readers -> ReaderType]
      BY <1>5, <2>1 DEF IInv, TypeOK
    <2> QED
      BY <1>4, <1>5, <1>6, <1>7, <2>2 DEF IInv, TypeOK
  <1>10. WindowSound'
    BY <1>5 DEF IInv, WindowSound
  <1>11. CursorsSound'
    <2> SUFFICES ASSUME NEW d \in 1..(minted + 1)
                 PROVE  /\ cursor'[d].generation <= generation
                        /\ cursor'[d].generation = generation
                             => Sound(cursor'[d], log)
      BY <1>4, <1>5 DEF CursorsSound
    <2>1. CASE d \in 1..minted
      BY <1>8, <2>1 DEF IInv, CursorsSound
    <2>2. CASE d = minted + 1
      BY <1>3, <1>8, <2>2, ChainTypes
    <2> QED
      BY <1>4, <2>1, <2>2
  <1>12. ReadersSound'
    <2> SUFFICES ASSUME NEW s \in Readers
                 PROVE  /\ reader'[s].cursor \in 0..(minted + 1)
                        /\ reader'[s].offset =
                             IF reader'[s].cursor = NoCursor THEN 0
                             ELSE cursor'[reader'[s].cursor].offset
      BY <1>4 DEF ReadersSound, OffsetOf
    <2>1. CASE s = r
      <3>1. reader'[s] = Idle
        BY <1>5, <2>1 DEF IInv, TypeOK
      <3> QED
        BY <1>4, <3>1 DEF Idle, Reader, NoCursor
    <2>2. CASE s # r
      <3>1. reader'[s] = reader[s]
        BY <1>5, <2>2 DEF IInv, TypeOK
      <3>2. /\ reader[s].cursor \in 0..minted
            /\ reader[s].offset = OffsetOf(reader[s].cursor)
        BY DEF IInv, ReadersSound
      <3>3. reader[s].cursor = NoCursor \/ reader[s].cursor \in 1..minted
        BY <1>4, <3>2 DEF NoCursor
      <3>4. reader[s].cursor # NoCursor =>
              cursor'[reader[s].cursor] = cursor[reader[s].cursor]
        BY <1>8, <3>3
      <3> QED
        BY <1>4, <3>1, <3>2, <3>4 DEF OffsetOf
    <2> QED
      BY <2>1, <2>2
  <1>13. NoLostWakeup'
    BY <1>5 DEF IInv, TypeOK, NoLostWakeup, Waiting, Idle, Reader
  <1> QED
    BY <1>9, <1>10, <1>11, <1>12, <1>13 DEF IInv

LEMMA PollResumesStep ==
  ASSUME IInv, NEW r \in Readers, PollResumes(r) PROVE IInv'
  BY ServeStep DEF PollResumes, IInv, ReadersSound

LEMMA ReadChangesStep ==
  ASSUME IInv, NEW r \in Readers, NEW c \in Ids \cup {NoCursor},
         ReadChanges(r, c)
  PROVE  IInv'
  <1>1. minted \in 0..MaxMinted /\ live \subseteq 1..minted
    BY DEF IInv, TypeOK
  <1>2. c \in 0..minted
    <2>1. c # NoCursor => c \in live
      BY DEF ReadChanges, Resolves
    <2>2. minted \in Nat
      BY <1>1, ReadsAssumption
    <2>3. CASE c = NoCursor
      BY <2>2, <2>3 DEF NoCursor
    <2>4. CASE c # NoCursor
      <3>1. c \in 1..minted
        BY <1>1, <2>1, <2>4
      <3> QED
        BY <2>2, <3>1
    <2> QED
      BY <2>3, <2>4
  <1>3. CASE Serve(r, c, OffsetOf(c))
    BY <1>2, <1>3, ServeStep
  <1>4. CASE /\ total <= OffsetOf(c)
             /\ reader' = [reader EXCEPT
                             ![r] = Reader("WAITING", c, OffsetOf(c))]
             /\ UNCHANGED <<groupVars, bufferVars, cursorVars>>
    <2>1. UNCHANGED <<status, generation, replacing, restoring, fed, sequence,
                      total, buffer, latest, dropped, log, minted, cursor, live,
                      lapsed>>
      BY <1>4 DEF groupVars, bufferVars, cursorVars
    <2> DEFINE waiter == Reader("WAITING", c, OffsetOf(c))
    <2>2. waiter \in ReaderType
      BY <1>2, ChainTypes DEF Reader, ReaderType
    <2>3. /\ waiter.cursor = c /\ waiter.offset = OffsetOf(c)
          /\ waiter.stage = "WAITING"
      BY DEF Reader
    <2> HIDE DEF waiter
    <2>4. /\ reader' \in [Readers -> ReaderType] /\ reader'[r] = waiter
          /\ \A s \in Readers \ {r} : reader'[s] = reader[s]
      BY <1>4, <2>2 DEF IInv, TypeOK, waiter
    <2>5. TypeOK'
      BY <2>1, <2>4 DEF IInv, TypeOK
    <2>6. WindowSound' /\ CursorsSound'
      BY <2>1 DEF IInv, WindowSound, CursorsSound
    <2>7. ReadersSound'
      BY <1>2, <2>1, <2>3, <2>4 DEF IInv, ReadersSound, OffsetOf
    <2>8. NoLostWakeup'
      BY <1>4, <2>1, <2>3, <2>4 DEF IInv, NoLostWakeup, Waiting
    <2> QED
      BY <2>5, <2>6, <2>7, <2>8 DEF IInv
  <1> QED
    BY <1>3, <1>4 DEF ReadChanges, OffsetOf

-----------------------------------------------------------------------------
(* Every step keeps the invariant.                                         *)

LEMMA NextIInv == IInv /\ [Next]_vars => IInv'
  <1> SUFFICES ASSUME IInv, [Next]_vars PROVE IInv'
    OBVIOUS
  <1>1. ASSUME NEW i \in Items, DataEvent(i) PROVE IInv'
    BY <1>1, DataEventStep
  <1>2. CASE StatusEvent
    BY <1>2, StatusEventStep
  <1>3. ASSUME NEW c \in Ids, CursorLapses(c) \/ LapsedCursorRefused(c)
        PROVE  IInv'
    BY <1>3, CursorLapsesStep, LapsedCursorRefusedStep
  <1>4. ASSUME NEW r \in Readers, Read(r) PROVE IInv'
    BY <1>4, ReadChangesStep, PollTimesOutStep, PollResumesStep, AbandonStep
       DEF Read
  <1>5. CASE Replace
    BY <1>5, ReplaceStep
  <1>6. CASE Cancel \/ Expire
    BY <1>6, CancelStep, ExpireStep
  <1>7. CASE UNCHANGED vars
    <2>1. UNCHANGED <<groupVars, bufferVars, minted, cursor, live, lapsed,
                      reader>>
      BY <1>7 DEF vars, cursorVars
    <2> QED
      BY <2>1, FewerHandles DEF IInv, TypeOK
  <1> QED
    BY <1>1, <1>2, <1>3, <1>4, <1>5, <1>6, <1>7 DEF Next

\* The invariant holds in every state that the reads can reach.
THEOREM IInvHolds == Spec => []IInv
  BY InitIInv, NextIInv, PTL DEF Spec

\* Type correctness, and the window: the buffer is the end of what happened in
\* this generation, for every size of the buffer.
THEOREM ReadsTyped == Spec => [](TypeOK /\ WindowSound)
  BY IInvHolds, PTL DEF IInv

\* What holds of every minted cursor holds of those in the registry.
LEMMA LiveCursorsSound ==
  ASSUME IInv, NEW c \in live, cursor[c].generation = generation
  PROVE  Sound(cursor[c], log) /\ total = Len(log)
  BY DEF IInv, TypeOK, CursorsSound, WindowSound

\* No client that follows valid cursors misses an event untold: however many
\* readers, polls, replacements and evictions there are.
THEOREM ChainsAreComplete == Spec => []ChainsComplete
  <1>1. IInv => ChainsComplete
    BY LiveCursorsSound DEF ChainsComplete, Sound
  <1> QED
    BY <1>1, IInvHolds, PTL

\* No event is delivered twice along a chain of valid cursors, or out of order.
THEOREM NothingIsGivenTwice == Spec => []NothingTwice
  <1>1. IInv => NothingTwice
    BY LiveCursorsSound DEF NothingTwice, Sound, InOrder
  <1> QED
    BY <1>1, IInvHolds, PTL

\* No long poll sleeps on an event it has not delivered.
THEOREM NoWakeupIsLost == Spec => []NoLostWakeup
  BY IInvHolds, PTL DEF IInv

-----------------------------------------------------------------------------
(* The bound of the store of cursors.                                      *)

\* Those with fewer than n above them are at most n.
LEMMA FewAbove ==
  ASSUME NEW L \in SUBSET Nat, IsFiniteSet(L), NEW n \in Nat
  PROVE  Cardinality({c \in L : Cardinality({d \in L : d > c}) < n}) <= n
  <1> DEFINE E == {c \in L : Cardinality({d \in L : d > c}) < n}
             f == [c \in E |-> Cardinality({d \in L : d > c})]
  <1>1. IsFiniteSet(E) /\ Cardinality(E) \in Nat
    <2>1. E \in SUBSET L
      OBVIOUS
    <2> HIDE DEF E
    <2> QED
      BY <2>1, FS_Subset, FS_CardinalityType
  <1>2. IsFiniteSet(0..(n - 1)) /\ Cardinality(0..(n - 1)) = n
    <2>1. 0 \in Int /\ n - 1 \in Int
      OBVIOUS
    <2> QED
      BY <2>1, FS_Interval
  <1>3. ASSUME NEW c \in L
        PROVE  /\ IsFiniteSet({d \in L : d > c})
               /\ Cardinality({d \in L : d > c}) \in Nat
    <2>1. {d \in L : d > c} \in SUBSET L
      OBVIOUS
    <2> QED
      BY <2>1, FS_Subset, FS_CardinalityType
  <1>4. f \in [E -> 0..(n - 1)]
    <2> SUFFICES ASSUME NEW c \in E
                 PROVE  Cardinality({d \in L : d > c}) \in 0..(n - 1)
      OBVIOUS
    <2> QED
      BY <1>3
  \* who is lower has more above
  <1>5. ASSUME NEW c \in E, NEW e \in E, c < e PROVE f[e] < f[c]
    <2> DEFINE above == {d \in L : d > c}
               higher == {d \in L : d > e}
    <2>1. /\ IsFiniteSet(above) /\ Cardinality(above) \in Nat
          /\ IsFiniteSet(higher) /\ Cardinality(higher) \in Nat
      BY <1>3
    <2>2. e \in above /\ higher \in SUBSET (above \ {e})
      <3>1. c \in L /\ e \in L /\ c \in Nat /\ e \in Nat
        OBVIOUS
      <3>2. ASSUME NEW d \in L, d > e PROVE d > c /\ d # e
        BY <1>5, <3>1, <3>2
      <3> QED
        BY <1>5, <3>1, <3>2
    <2>3. f[c] = Cardinality(above) /\ f[e] = Cardinality(higher)
      OBVIOUS
    <2> HIDE DEF above, higher, f
    <2>4. /\ IsFiniteSet(above \ {e})
          /\ Cardinality(above \ {e}) = Cardinality(above) - 1
      BY <2>1, <2>2, FS_RemoveElement
    <2>5. Cardinality(higher) <= Cardinality(above \ {e})
      BY <2>2, <2>4, FS_Subset
    <2> QED
      BY <2>1, <2>3, <2>4, <2>5
  <1>6. ~(n < Cardinality(E))
    <2> SUFFICES ASSUME n < Cardinality(E) PROVE FALSE
      OBVIOUS
    <2>1. E \subseteq Nat
      OBVIOUS
    <2> HIDE DEF E, f
    <2>2. PICK x, y \in E : x # y /\ f[x] = f[y]
      BY <1>1, <1>2, <1>4, FS_PigeonHole
    <2>3. /\ x \in Nat /\ y \in Nat
          /\ f[x] \in 0..(n - 1) /\ f[y] \in 0..(n - 1)
      BY <1>4, <2>1
    <2>4. x < y \/ y < x
      BY <2>2, <2>3
    <2> QED
      BY <1>5, <2>2, <2>3, <2>4
  <1> HIDE DEF E
  <1>7. Cardinality(E) <= n
    BY <1>1, <1>6
  <1> QED
    BY <1>7 DEF E

\* The handle just made has nobody above it, so it survives the eviction.
LEMMA FreshSurvives ==
  ASSUME TypeOK, NEW c, NEW new, Mint(c, new)
  PROVE  minted' \in live' /\ Cardinality(live') <= MaxCursors
  <1> DEFINE L == (live \ {c}) \cup {minted + 1}
             U == L \ lapsed
             A(x) == {d \in U : d > x}
  <1>1. /\ minted \in Nat /\ live \subseteq 1..minted /\ lapsed \subseteq live
        /\ MaxCursors \in Nat \ {0}
        /\ minted' = minted + 1 /\ live' = Evicted(L)
    BY ReadsAssumption DEF TypeOK, Mint
  <1>2. /\ U \in SUBSET Nat /\ minted + 1 \in U /\ minted + 1 \in L
        /\ A(minted + 1) = {}
    <2>1. \A d \in L : d \in Nat /\ d <= minted + 1
      BY <1>1
    <2>2. minted + 1 \in L /\ minted + 1 \notin lapsed
      BY <1>1
    <2> HIDE DEF L
    <2> QED
      BY <1>1, <2>1, <2>2
  <1>3. IsFiniteSet(L) /\ IsFiniteSet(U) /\ Cardinality(L) \in Nat
    <2>1. IsFiniteSet(1..(minted + 1))
      BY <1>1, FS_Interval
    <2>2. L \in SUBSET (1..(minted + 1)) /\ U \in SUBSET (1..(minted + 1))
      <3>1. /\ 1..minted \subseteq 1..(minted + 1)
            /\ minted + 1 \in 1..(minted + 1)
        BY <1>1
      <3> QED
        BY <1>1, <3>1
    <2> HIDE DEF L, U
    <2> QED
      BY <2>1, <2>2, FS_Subset, FS_CardinalityType
  <1> HIDE DEF L
  <1>4. CASE Cardinality(L) <= MaxCursors
    BY <1>1, <1>2, <1>4 DEF Evicted
  <1>5. CASE ~(Cardinality(L) <= MaxCursors)
    <2>1. live' = {x \in U : Cardinality(A(x)) < MaxCursors}
      BY <1>1, <1>5 DEF Evicted
    <2> HIDE DEF U
    <2>2. Cardinality(A(minted + 1)) = 0
      BY <1>2, FS_EmptySet
    <2>3. minted' \in live'
      BY <1>1, <1>2, <2>1, <2>2
    <2>4. Cardinality({x \in U : Cardinality({d \in U : d > x}) < MaxCursors})
            <= MaxCursors
      BY <1>1, <1>2, <1>3, FewAbove
    <2> QED
      BY <2>1, <2>3, <2>4
  <1> QED
    BY <1>4, <1>5

\* The store of cursors is bounded, and the handle in a reply is usable.
THEOREM FreshCursorIsUsable == Spec => FreshCursorUsable
  <1>1. IInv /\ [Next]_vars =>
          (minted' # minted =>
             minted' \in live' /\ Cardinality(live') <= MaxCursors)
    <2> SUFFICES ASSUME IInv, [Next]_vars, minted' # minted
                 PROVE  minted' \in live' /\ Cardinality(live') <= MaxCursors
      OBVIOUS
    <2>1. ASSUME NEW r \in Readers, NEW c, NEW offset, Serve(r, c, offset)
          PROVE  minted' \in live' /\ Cardinality(live') <= MaxCursors
      BY <2>1, FreshSurvives DEF Serve, IInv
    <2>2. ASSUME NEW r \in Readers, Read(r)
          PROVE  minted' \in live' /\ Cardinality(live') <= MaxCursors
      BY <2>1, <2>2
         DEF Read, ReadChanges, PollTimesOut, PollResumes, Abandon, cursorVars
    <2>3. ~\E i \in Items : DataEvent(i)
      BY DEF DataEvent, cursorVars
    <2>4. ~(StatusEvent \/ ResubscribeBegins)
          /\ ~\E g \in restoring : RestoreReturns(g)
      BY DEF StatusEvent, ResubscribeBegins, RestoreReturns, cursorVars
    <2>5. ~\E c \in Ids : CursorLapses(c) \/ LapsedCursorRefused(c)
      BY DEF CursorLapses, LapsedCursorRefused
    <2>6. ~(ResubscribeCommits \/ Restore \/ Cancel \/ Expire)
      BY DEF ResubscribeCommits, Restore, Cancel, Expire, Invalidate
    <2>7. ~UNCHANGED vars
      BY DEF vars, cursorVars
    <2> QED
      BY <2>2, <2>3, <2>4, <2>5, <2>6, <2>7 DEF Next, Replace
  <1> QED
    BY <1>1, IInvHolds, PTL DEF Spec, FreshCursorUsable
=============================================================================
