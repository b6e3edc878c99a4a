------------------------- MODULE GlobalStateProofs -------------------------
(***************************************************************************)
(* Proofs about GlobalState, for all constants.                            *)
(*                                                                         *)
(* What the program computes from two readings of the wall clock is        *)
(* compared with the time that really passed between them.  The inductive  *)
(* invariant says how far the two can be apart: by no more than the clock  *)
(* was set back in the one direction, and not at all while nobody sets it. *)
(***************************************************************************)
EXTENDS GlobalState, TLAPS

\* The clock was set at most MaxStep at a time, so it stays within the epoch's
\* distance from zero and from the end of the word.
ClockInv ==
    /\ wall \in Int
    /\ now \in 0 .. MaxTime
    /\ sets \in 0 .. MaxSets
    /\ setBack \in Nat
    /\ setBack <= MaxStep * sets
    /\ wall >= Epoch + now - setBack
    /\ wall <= Epoch + now + MaxStep * sets
    /\ sets = 0 => wall = Epoch + now

\* A stamp of the wall clock and the time it was taken at.
Sound(stamp, time) ==
    /\ stamp \in 0 .. Word - 1
    /\ time \in 0 .. now
    /\ wall - stamp >= now - time - setBack
    /\ sets = 0 => wall - stamp = now - time
    /\ setBack = 0 => stamp <= wall

PeersInv ==
    /\ Listed \subseteq Peer
    /\ lastSeen \in [Listed -> 0 .. Word - 1]
    /\ heardAt \in [Listed -> 0 .. MaxTime]
    /\ \A p \in Listed : Sound(lastSeen[p], heardAt[p])

AirtimesInv ==
    /\ airtimes \in Seq(0 .. Word - 1)
    /\ sentAt \in Seq(0 .. MaxTime)
    /\ Len(sentAt) = Len(airtimes) /\ Len(airtimes) <= MaxRecords
    /\ \A i \in 1 .. Len(airtimes) : Sound(airtimes[i], sentAt[i])
    /\ setBack = 0 => \A i, j \in 1 .. Len(airtimes) : i <= j => airtimes[i] <= airtimes[j]

IInv == ClockInv /\ PeersInv /\ AirtimesInv

---------------------------------------------------------------------------

LEMMA Products ==
    /\ \A n \in 0 .. MaxSets : MaxStep * n \in Nat /\ MaxStep * n <= MaxStep * MaxSets
    /\ \A n \in Nat : MaxStep * (n + 1) = MaxStep * n + MaxStep
    /\ MaxStep * 0 = 0
<1>1. MaxStep \in Nat /\ MaxSets \in Nat
  BY BoundAssumption
<1>2. \A n \in Nat : MaxStep * (n + 1) = MaxStep * n + MaxStep
  BY <1>1
<1>3. ASSUME NEW n \in 0 .. MaxSets
      PROVE  MaxStep * n \in Nat /\ MaxStep * n <= MaxStep * MaxSets
  <2>1. MaxSets - n \in Nat /\ MaxStep * (MaxSets - n) \in Nat
    BY <1>1
  <2>2. MaxStep * MaxSets = MaxStep * n + MaxStep * (MaxSets - n)
    BY <1>1
  <2> QED
    BY <1>1, <2>1, <2>2
<1> QED
  BY <1>1, <1>2, <1>3

\* The wall clock stays within the word, and within the epoch of zero.
LEMMA WallBounds ==
    ASSUME ClockInv
    PROVE  /\ wall \in 0 .. Word - 1
           /\ setBack \in 0 .. MaxStep * MaxSets
           /\ \A secs \in Window : wall - secs \in Nat
           /\ Word - setBack > MaxAge
<1>1. MaxStep * sets \in Nat /\ MaxStep * sets <= MaxStep * MaxSets
  BY Products DEF ClockInv
<1>2. MaxStep * MaxSets \in Nat
  BY BoundAssumption
<1> QED
  BY <1>1, <1>2, BoundAssumption, AgeAssumption, WindowAssumption DEF ClockInv

LEMMA InitIInv == Init => IInv
<1> SUFFICES ASSUME Init PROVE IInv
  OBVIOUS
<1>1. ClockInv
  BY Products, BoundAssumption DEF Init, ClockInv
<1>2. DOMAIN <<>> = {}
  OBVIOUS
<1>3. PeersInv
  BY <1>2 DEF Init, PeersInv, Listed
<1>4. AirtimesInv
  BY BoundAssumption DEF Init, AirtimesInv
<1> QED
  BY <1>1, <1>3, <1>4 DEF IInv

\* A stamp stays sound when the clock runs or is set.
LEMMA TickSound ==
    ASSUME ClockInv, Tick, NEW stamp, NEW time, Sound(stamp, time)
    PROVE  Sound(stamp, time)'
BY DEF ClockInv, Tick, Sound, history

LEMMA SetClockSound ==
    ASSUME ClockInv, NEW step \in ((0 - MaxStep) .. MaxStep) \ {0}, SetClock(step),
           NEW stamp, NEW time, Sound(stamp, time)
    PROVE  Sound(stamp, time)'
<1>1. MaxStep \in Nat
  BY BoundAssumption
<1>2. CASE step < 0
  <2>1. setBack' = setBack - step /\ setBack' # 0 /\ sets' # 0
    BY <1>1, <1>2 DEF SetClock, ClockInv
  <2> QED
    BY <1>1, <1>2, <2>1 DEF SetClock, ClockInv, Sound
<1>3. CASE step > 0
  <2>1. setBack' = setBack /\ sets' # 0
    BY <1>1, <1>3 DEF SetClock, ClockInv
  <2> QED
    BY <1>1, <1>3, <2>1 DEF SetClock, ClockInv, Sound
<1> QED
  BY <1>1, <1>2, <1>3

\* A stamp that is taken now is sound.
LEMMA NowSound == ClockInv => Sound(wall, now)
<1> SUFFICES ASSUME ClockInv PROVE Sound(wall, now)
  OBVIOUS
<1>1. wall \in 0 .. Word - 1
  BY WallBounds
<1> QED
  BY <1>1, BoundAssumption DEF ClockInv, Sound

---------------------------------------------------------------------------
(* Each action.                                                            *)

LEMMA TickClock == ClockInv /\ Tick => ClockInv'
<1>1. MaxStep * sets \in Nat \/ ~ClockInv
  BY Products DEF ClockInv
<1> QED
  BY <1>1, BoundAssumption DEF ClockInv, Tick

LEMMA SetClockClock ==
    ASSUME ClockInv, NEW step \in ((0 - MaxStep) .. MaxStep) \ {0}, SetClock(step)
    PROVE  ClockInv'
<1>1. MaxStep \in Nat /\ MaxSets \in Nat /\ Epoch \in Nat /\ MaxTime \in Nat
  BY BoundAssumption
<1>2. sets' = sets + 1 /\ sets' \in 0 .. MaxSets /\ sets \in Nat
  BY <1>1 DEF SetClock, ClockInv
<1>3. MaxStep * sets' = MaxStep * sets + MaxStep /\ MaxStep * sets \in Nat
  BY <1>2, Products DEF ClockInv
<1>4. CASE step < 0
  <2>1. setBack' = setBack - step
    BY <1>1, <1>4 DEF SetClock, ClockInv
  <2> QED
    BY <1>1, <1>2, <1>3, <1>4, <2>1 DEF SetClock, ClockInv
<1>5. CASE step > 0
  <2>1. setBack' = setBack
    BY <1>1, <1>5 DEF SetClock, ClockInv
  <2> QED
    BY <1>1, <1>2, <1>3, <1>5, <2>1 DEF SetClock, ClockInv
<1> QED
  BY <1>1, <1>4, <1>5

LEMMA SameClock ==
    ASSUME ClockInv, UNCHANGED <<wall, now, sets, setBack>>
    PROVE  ClockInv'
BY DEF ClockInv

\* What holds of the stamps while only the clock moves.
LEMMA StampsKept ==
    ASSUME PeersInv, AirtimesInv, UNCHANGED <<program, heardAt, sentAt>>,
           \A stamp, time : Sound(stamp, time) => Sound(stamp, time)',
           setBack' = 0 => setBack = 0
    PROVE  PeersInv' /\ AirtimesInv'
<1>1. Listed' = Listed
  BY DEF program, Listed
<1>2. PeersInv'
  BY <1>1 DEF PeersInv, program
<1>3. AirtimesInv'
  BY DEF AirtimesInv, program
<1> QED
  BY <1>2, <1>3

LEMMA TickStep == IInv /\ Tick => IInv'
<1> SUFFICES ASSUME IInv, Tick PROVE IInv'
  OBVIOUS
<1>1. ClockInv'
  BY TickClock DEF IInv
<1>2. \A stamp, time : Sound(stamp, time) => Sound(stamp, time)'
  BY TickSound DEF IInv
<1>3. PeersInv' /\ AirtimesInv'
  BY <1>2, StampsKept DEF IInv, Tick
<1> QED
  BY <1>1, <1>3 DEF IInv

LEMMA SetClockStep ==
    ASSUME IInv, NEW step \in ((0 - MaxStep) .. MaxStep) \ {0}, SetClock(step)
    PROVE  IInv'
<1>1. ClockInv'
  BY SetClockClock DEF IInv
<1>2. \A stamp, time : Sound(stamp, time) => Sound(stamp, time)'
  BY SetClockSound DEF IInv
<1>3. setBack' = 0 => setBack = 0
  BY BoundAssumption DEF IInv, ClockInv, SetClock
<1>4. PeersInv' /\ AirtimesInv'
  BY <1>2, <1>3, StampsKept DEF IInv, SetClock
<1> QED
  BY <1>1, <1>4 DEF IInv

LEMMA HearStep ==
    ASSUME IInv, NEW p \in Peer, Hear(p)
    PROVE  IInv'
<1>1. ClockInv'
  BY SameClock DEF IInv, Hear
<1>2. \A stamp, time : Sound(stamp, time)' <=> Sound(stamp, time)
  BY DEF Sound, Hear
<1>3. AirtimesInv'
  BY <1>2 DEF IInv, AirtimesInv, Hear
<1>4. Listed' = Listed \cup {p}
  BY DEF Hear, Listed
<1>5. Sound(wall, now)
  BY NowSound DEF IInv
<1>6. ASSUME NEW q \in Listed' PROVE Sound(lastSeen'[q], heardAt'[q])
  <2>1. CASE q = p
    BY <1>4, <1>5, <2>1 DEF Hear
  <2>2. CASE q # p
    <3>1. q \in Listed /\ lastSeen'[q] = lastSeen[q] /\ heardAt'[q] = heardAt[q]
      BY <1>4, <2>2 DEF Hear
    <3> QED
      BY <3>1 DEF IInv, PeersInv
  <2> QED
    BY <2>1, <2>2
<1>7. lastSeen' \in [Listed' -> 0 .. Word - 1]
  BY <1>4, <1>5 DEF Hear, IInv, PeersInv, Sound
<1>8. heardAt' \in [Listed' -> 0 .. MaxTime]
  BY <1>4 DEF Hear, IInv, PeersInv, ClockInv
<1>9. PeersInv'
  BY <1>2, <1>4, <1>6, <1>7, <1>8 DEF IInv, PeersInv
<1> QED
  BY <1>1, <1>3, <1>9 DEF IInv

LEMMA RecordStep ==
    ASSUME IInv, RecordAirtime
    PROVE  IInv'
<1>1. ClockInv'
  BY SameClock DEF IInv, RecordAirtime
<1>2. \A stamp, time : Sound(stamp, time)' <=> Sound(stamp, time)
  BY DEF Sound, RecordAirtime
<1>3. PeersInv'
  <2>1. Listed' = Listed
    BY DEF RecordAirtime, Listed
  <2> QED
    BY <1>2, <2>1 DEF IInv, PeersInv, RecordAirtime
<1>4. Sound(wall, now)
  BY NowSound DEF IInv
<1> DEFINE n == Len(airtimes)
<1>5. /\ n \in Nat /\ Len(airtimes') = n + 1 /\ Len(sentAt') = n + 1
      /\ airtimes' \in Seq(0 .. Word - 1) /\ sentAt' \in Seq(0 .. MaxTime)
      /\ \A i \in 1 .. n : airtimes'[i] = airtimes[i] /\ sentAt'[i] = sentAt[i]
      /\ airtimes'[n + 1] = wall /\ sentAt'[n + 1] = now
      /\ n + 1 <= MaxRecords
  BY <1>4, BoundAssumption DEF IInv, AirtimesInv, ClockInv, RecordAirtime, Sound
<1>6. ASSUME NEW i \in 1 .. n + 1 PROVE Sound(airtimes'[i], sentAt'[i])
  <2>1. i \in 1 .. n \/ i = n + 1
    BY <1>5
  <2> QED
    BY <1>4, <1>5, <2>1 DEF IInv, AirtimesInv
<1>7. ASSUME setBack = 0, NEW i \in 1 .. n + 1, NEW j \in 1 .. n + 1, i <= j
      PROVE  airtimes'[i] <= airtimes'[j]
  <2>1. CASE j \in 1 .. n
    <3>1. i \in 1 .. n
      BY <1>5, <1>7, <2>1
    <3> QED
      BY <1>5, <1>7, <2>1, <3>1 DEF IInv, AirtimesInv
  <2>2. CASE j = n + 1
    <3>1. CASE i = n + 1
      BY <1>4, <1>5, <2>2, <3>1 DEF Sound
    <3>2. CASE i \in 1 .. n
      BY <1>5, <1>7, <2>2, <3>2 DEF IInv, AirtimesInv, Sound
    <3> QED
      BY <1>5, <3>1, <3>2
  <2> QED
    BY <1>5, <2>1, <2>2
<1>8. AirtimesInv'
  <2>1. setBack' = setBack
    BY DEF RecordAirtime
  <2> HIDE DEF n
  <2> QED
    BY <1>2, <1>5, <1>6, <1>7, <2>1 DEF AirtimesInv
<1> QED
  BY <1>1, <1>3, <1>8 DEF IInv

LEMMA Inductive == IInv /\ [Next]_vars => IInv'
<1> SUFFICES ASSUME IInv, [Next]_vars PROVE IInv'
  OBVIOUS
<1>1. CASE Tick
  BY <1>1, TickStep
<1>2. ASSUME NEW step \in ((0 - MaxStep) .. MaxStep) \ {0}, SetClock(step) PROVE IInv'
  BY <1>2, SetClockStep
<1>3. ASSUME NEW p \in Peer, Hear(p) PROVE IInv'
  BY <1>3, HearStep
<1>4. CASE RecordAirtime
  BY <1>4, RecordStep
<1>5. CASE UNCHANGED vars
  <2>1. ClockInv'
    BY <1>5, SameClock DEF IInv, vars, history
  <2>2. \A stamp, time : Sound(stamp, time) => Sound(stamp, time)'
    BY <1>5 DEF Sound, vars, history
  <2>3. PeersInv' /\ AirtimesInv'
    BY <1>5, <2>2, StampsKept DEF IInv, vars, history, program
  <2> QED
    BY <2>1, <2>3 DEF IInv
<1> QED
  BY <1>1, <1>2, <1>3, <1>4, <1>5 DEF Next

---------------------------------------------------------------------------
(* What follows from the invariant.                                        *)

\* A remainder modulo the word is the difference itself or, if that is
\* negative, one word more.
LEMMA Wrapped ==
    ASSUME NEW d \in Int, NEW w \in Nat, d < w, d > 0 - w
    PROVE  d % w = IF d >= 0 THEN d ELSE d + w
OBVIOUS

LEMMA AgeOfSound ==
    ASSUME ClockInv, NEW p \in Listed, Sound(lastSeen[p], heardAt[p])
    PROVE  LastSeenSecs(p) = IF wall >= lastSeen[p] THEN wall - lastSeen[p]
                                                     ELSE wall - lastSeen[p] + Word
<1> DEFINE d == wall - lastSeen[p]
<1>1. wall \in 0 .. Word - 1 /\ lastSeen[p] \in 0 .. Word - 1 /\ Word \in Nat
  BY WallBounds, BoundAssumption DEF Sound
<1>2. d \in Int /\ d < Word /\ d > 0 - Word
  BY <1>1
<1>3. d % Word = IF d >= 0 THEN d ELSE d + Word
  <2> HIDE DEF d
  <2> QED
    BY <1>1, <1>2, Wrapped
<1> QED
  BY <1>1, <1>3 DEF LastSeenSecs

LEMMA TypeFromIInv == IInv => TypeOK
BY WallBounds DEF IInv, ClockInv, PeersInv, AirtimesInv, TypeOK

LEMMA SeenFromIInv == IInv => SeenIsRecent
<1> SUFFICES ASSUME IInv, NEW p \in PeerNames(MaxAge)
             PROVE  now - heardAt[p] < MaxAge + setBack
  BY DEF SeenIsRecent
<1>1. p \in Listed /\ LastSeenSecs(p) < MaxAge
  BY DEF PeerNames, HasSeenPeer
<1>2. Sound(lastSeen[p], heardAt[p])
  BY <1>1 DEF IInv, PeersInv
<1>3. Word - setBack > MaxAge /\ setBack \in Nat /\ wall \in Int
  BY WallBounds DEF IInv, ClockInv
<1>4. LastSeenSecs(p) = IF wall >= lastSeen[p] THEN wall - lastSeen[p]
                                                ELSE wall - lastSeen[p] + Word
  BY <1>1, <1>2, AgeOfSound DEF IInv
<1>5. Word \in Nat /\ MaxAge \in Nat /\ now \in Nat
  BY BoundAssumption, AgeAssumption DEF IInv, ClockInv
<1> QED
  BY <1>1, <1>2, <1>3, <1>4, <1>5 DEF Sound

LEMMA RecentFromIInv == IInv => RecentIsSeen
<1> SUFFICES ASSUME IInv, sets = 0, NEW p \in Listed, now - heardAt[p] < MaxAge
             PROVE  HasSeenPeer(p, MaxAge)
  BY DEF RecentIsSeen
<1>1. Sound(lastSeen[p], heardAt[p])
  BY DEF IInv, PeersInv
<1>2. wall - lastSeen[p] = now - heardAt[p] /\ now - heardAt[p] >= 0
  BY <1>1 DEF IInv, ClockInv, Sound
<1>3. LastSeenSecs(p) = wall - lastSeen[p]
  BY <1>1, <1>2, AgeOfSound DEF IInv, ClockInv, Sound
<1> QED
  BY <1>2, <1>3 DEF HasSeenPeer

LEMMA StopFromIInv == IInv => StopIsSafe
<1> SUFFICES ASSUME IInv, setBack = 0, NEW secs \in Window, NEW i \in DOMAIN airtimes,
                    ~TooOld(i, secs), NEW j \in i .. Len(airtimes)
             PROVE  ~TooOld(j, secs)
  BY DEF StopIsSafe, Counted, IInv, AirtimesInv
<1>1. i \in 1 .. Len(airtimes) /\ j \in 1 .. Len(airtimes) /\ i <= j
  BY DEF IInv, AirtimesInv
<1>2. airtimes[i] \in Nat /\ airtimes[j] \in Nat /\ airtimes[i] <= airtimes[j]
  BY <1>1 DEF IInv, AirtimesInv, Sound
<1>3. wall - secs \in Nat
  BY WallBounds DEF IInv
<1> QED
  BY <1>2, <1>3 DEF TooOld

LEMMA WindowFromIInv == IInv => WindowIsRecent
<1> SUFFICES ASSUME IInv, NEW secs \in Window, NEW i \in Counted(secs)
             PROVE  now - sentAt[i] <= secs + setBack
  BY DEF WindowIsRecent
<1>1. i \in 1 .. Len(airtimes) /\ ~TooOld(i, secs)
  BY DEF Counted, IInv, AirtimesInv
<1>2. Sound(airtimes[i], sentAt[i])
  BY <1>1 DEF IInv, AirtimesInv
<1>3. secs \in Nat /\ wall \in Int /\ now \in Nat /\ setBack \in Nat
  BY WindowAssumption DEF IInv, ClockInv
<1> QED
  BY <1>1, <1>2, <1>3 DEF TooOld, Sound

---------------------------------------------------------------------------
(* Theorems of the specification.                                          *)

LEMMA Invariance == Spec => []IInv
<1> QED
  BY InitIInv, Inductive, PTL DEF Spec

\* The stamps of the peers and the airtimes are well-formed u64 values, for
\* every epoch that is further from zero and from the end of the word than
\* the clock is ever set (global/mod.rs).
THEOREM TypeCorrect == Spec => []TypeOK
<1> QED
  BY Invariance, TypeFromIInv, PTL

\* has_seen_peer and peer_names never report a peer that was heard longer ago
\* than the maximum age and what the clock was set back.
THEOREM SeenPeersAreRecent == Spec => []SeenIsRecent
<1> QED
  BY Invariance, SeenFromIInv, PTL

\* While nobody sets the clock every peer that was heard in time is reported.
THEOREM RecentPeersAreSeen == Spec => []RecentIsSeen
<1> QED
  BY Invariance, RecentFromIInv, PTL

\* airtime_last_secs may stop at the first entry that is too old, as its
\* comment claims, as long as the clock is not set back.
THEOREM EarlyStopIsSafe == Spec => []StopIsSafe
<1> QED
  BY Invariance, StopFromIInv, PTL

\* airtime_last_secs counts nothing from before the window, but for what the
\* clock was set back.
THEOREM WindowCountsRecent == Spec => []WindowIsRecent
<1> QED
  BY Invariance, WindowFromIInv, PTL

=============================================================================
